---- MODULE Spec2Model ----
(***************************************************************************)
(* Record synchronization and enrichment pipeline of NewsFeed:            *)
(* stream processors build canonical records from change events, enrich   *)
(* them through the generation backend, upsert them into the unified      *)
(* table, dead-letter the records whose enrichment failed, and a redrive  *)
(* handler re-attempts the dead-lettered records.                         *)
(*                                                                         *)
(* Strings that are concatenated by the code (identities, keys) are       *)
(* sequences of atoms, so that joining with # is a real concatenation.    *)
(* An absent or empty string is the empty sequence (both are falsy).      *)
(***************************************************************************)
EXTENDS Integers, Sequences, FiniteSets, TLC

VARIABLES
    store,      \* unified table: set of rows, at most one per (PK, SK)
    queue,      \* dead-letter queue: set of messages
    now,        \* wall clock (new Date())
    inv,        \* the running stream-processor invocation
    rd,         \* the redrive invocations, by invocation id
    trace,      \* effects issued by the last handler step, in order
    last        \* what the last handler step was and how it ended

vars == <<store, queue, now, inv, rd, trace, last>>

----------------------------------------------------------------------------
\* Bounds of the model

MaxTime == 1      \* the clock runs 0..MaxTime
MaxQueue == 2     \* messages in the dead-letter queue after a step
MaxBatch == 2     \* events per stream invocation

----------------------------------------------------------------------------
\* Program constants

maxRetries == 3
MAX_RETRY_COUNT == 3
BATCH_SIZE == 10

FallbackSummary == "Unable to generate summary."
FallbackInsight == "Unable to generate insight."

\* the value of an absent (undefined) string field
Undefined == "undefined"
\* the value of an absent timestamp
NoTime == 0 - 1

SK_RECORD == <<"RECORD">>

----------------------------------------------------------------------------
\* Strings built by concatenation

Hash == <<"#">>

Falsy(s) == s = <<>>

\* template string: a, then #, then b
Join(a, b) == a \o Hash \o b

\* a || b || c on strings
OrElse(a, b) == IF Falsy(a) THEN b ELSE a

\* record[f] for an identity-like field: absent reads as the empty string
GetId(rec, f) == IF f \in DOMAIN rec THEN rec[f] ELSE <<>>

\* record[f] || '' for a content field
GetStr(rec, f) == IF f \in DOMAIN rec THEN rec[f] ELSE ""

\* record[f] || 0 for a numeric content field
GetNum(rec, f) == IF f \in DOMAIN rec THEN rec[f] ELSE 0

\* record[f] for a timestamp field
GetTime(rec, f) == IF f \in DOMAIN rec THEN rec[f] ELSE NoTime

----------------------------------------------------------------------------
\* Transformers (shared/transformers/index.ts)

notesTransformer ==
    [name |-> "notes", sourceTableName |-> <<"nexusnote-notes-production">>,
     sourceType |-> "personal", recordType |-> "NOTE", hasExtractIdFromKeys |-> FALSE]

thoughtsTransformer ==
    [name |-> "thoughts", sourceTableName |-> <<"nexusnote-thoughts-production">>,
     sourceType |-> "personal", recordType |-> "THOUGHT", hasExtractIdFromKeys |-> FALSE]

soliloquiesTransformer ==
    [name |-> "soliloquies", sourceTableName |-> <<"nexusnote-soliloquies-production">>,
     sourceType |-> "personal", recordType |-> "SOLILOQUY", hasExtractIdFromKeys |-> TRUE]

llmCouncilTransformer ==
    [name |-> "llm-council", sourceTableName |-> <<"LLMCouncilConversations">>,
     sourceType |-> "external", recordType |-> "LLM_CONVERSATION",
     hasExtractIdFromKeys |-> FALSE]

contactsTransformer ==
    [name |-> "contacts", sourceTableName |-> <<"nexusnote-inno-contacts-production">>,
     sourceType |-> "personal", recordType |-> "CONTACT", hasExtractIdFromKeys |-> FALSE]

TRANSFORMERS ==
    {notesTransformer, contactsTransformer, thoughtsTransformer, llmCouncilTransformer,
     soliloquiesTransformer}

getTransformer(processorId) == CHOOSE t \in TRANSFORMERS : t.name = processorId

Thrown(msg) == [ok |-> FALSE, id |-> <<>>, err |-> msg]
Returned(id) == [ok |-> TRUE, id |-> id, err |-> ""]

SKIPPING_RECORD == "SKIPPING_RECORD: Internal user_council record"

\* id.startsWith(prefix), the prefix being one atom
StartsWith(id, prefix) == Len(id) >= 1 /\ id[1] = prefix

extractId(t, record) ==
    CASE t.name = "notes" ->
            LET userId == GetId(record, "userId")
                noteId == GetId(record, "noteId")
            IN IF Falsy(userId) \/ Falsy(noteId)
               THEN Thrown("Missing userId or noteId")
               ELSE Returned(Join(userId, noteId))
      [] t.name = "contacts" ->
            LET pk == GetId(record, "PK")
                sk == GetId(record, "SK")
            IN IF Falsy(pk) \/ Falsy(sk)
               THEN Thrown("Missing PK or SK")
               ELSE Returned(Join(pk, sk))
      [] t.name = "thoughts" ->
            LET userId == GetId(record, "userId")
                thoughtId == GetId(record, "thoughtId")
            IN IF Falsy(userId) \/ Falsy(thoughtId)
               THEN Thrown("Missing userId or thoughtId")
               ELSE Returned(Join(userId, thoughtId))
      [] t.name = "llm-council" ->
            LET id == GetId(record, "id")
            IN IF Falsy(id) THEN Thrown("Missing id")
               ELSE IF StartsWith(id, "user_council") THEN Thrown(SKIPPING_RECORD)
               ELSE Returned(id)
      [] t.name = "soliloquies" ->
            LET id == GetId(record, "soliloquyId")
            IN IF Falsy(id) THEN Thrown("Missing soliloquyId") ELSE Returned(id)

extractIdFromKeys(t, keys) ==
    LET id == OrElse(GetId(keys, "soliloquyId"),
                     OrElse(GetId(keys, "PK"), GetId(keys, "id")))
    IN IF Falsy(id)
       THEN Thrown("Cannot extract ID from keys for REMOVE event")
       ELSE Returned(id)

\* messages[i]?.field || '' of an LLM-council conversation
MessageField(record, i, field) ==
    IF "messages" \in DOMAIN record /\ i <= Len(record.messages)
    THEN GetStr(record.messages[i], field)
    ELSE ""

\* a content map that carries the whole source record over
transformContent_spreadsRecord(t, record) == record

transformContent(t, record) ==
    CASE t.name = "notes" ->
            [noteTitle |-> GetStr(record, "title"),
             noteContent |-> GetStr(record, "content"),
             noteAiTags |-> GetStr(record, "aiTags")]
      [] t.name = "contacts" ->
            [contactName |-> GetStr(record, "contactName"),
             contactRole |-> GetStr(record, "role"),
             contactWorkingStyle |-> GetStr(record, "workingStyle"),
             contactNextInteraction |-> GetStr(record, "nextInteraction")]
      [] t.name = "thoughts" ->
            [thoughtContent |-> GetStr(record, "content"),
             thoughtTag |-> GetStr(record, "tagName")]
      [] t.name = "llm-council" ->
            [conversationId |-> GetId(record, "id"),
             conversationTitle |-> GetStr(record, "title"),
             userQuery |-> MessageField(record, 1, "content"),
             councilResponse |-> MessageField(record, 2, "response")]
      [] t.name = "soliloquies" ->
            [voiceNoteTranscript |-> GetStr(record, "normalizedContent"),
             voiceNoteDurationSeconds |-> GetNum(record, "durationSeconds")]

getCreatedAt(t, record) ==
    IF t.name = "llm-council" THEN GetTime(record, "created_at")
                              ELSE GetTime(record, "createdAt")

getUpdatedAt(t, record) ==
    CASE t.name = "notes" -> GetTime(record, "updatedAt")
      [] t.name = "contacts" -> GetTime(record, "updatedAt")
      [] t.name = "thoughts" -> GetTime(record, "createdAt")
      [] t.name = "llm-council" -> GetTime(record, "created_at")
      [] t.name = "soliloquies" -> GetTime(record, "processedAt")

\* pk.startsWith('USER#') ? pk.replace('USER#', '') : undefined
UserOfKey(pk) ==
    IF Len(pk) >= 2 /\ pk[1] = "USER" /\ pk[2] = "#"
    THEN SubSeq(pk, 3, Len(pk))
    ELSE <<>>

extractUserId(t, record) ==
    CASE t.name = "llm-council" -> GetId(record, "user_id")
      [] t.name = "contacts" -> UserOfKey(GetId(record, "PK"))
      [] OTHER -> GetId(record, "userId")

\* a || now on timestamps
TimeOr(ts, t) == IF ts = NoTime THEN t ELSE ts

buildUnifiedRecord(t, sourceRecord, eventType, t0) ==
    LET x == extractId(t, sourceRecord)
    IN IF ~x.ok
       THEN [ok |-> FALSE, err |-> x.err, rec |-> <<>>]
       ELSE [ok |-> TRUE, err |-> "",
             rec |-> [PK |-> Join(t.sourceTableName, x.id),
                      SK |-> SK_RECORD,
                      source_type |-> t.sourceType,
                      table_name |-> t.sourceTableName,
                      original_id |-> x.id,
                      record_type |-> t.recordType,
                      content |-> transformContent(t, sourceRecord),
                      created_at |-> TimeOr(getCreatedAt(t, sourceRecord), t0),
                      updated_at |-> TimeOr(getUpdatedAt(t, sourceRecord), t0),
                      user_id |-> extractUserId(t, sourceRecord),
                      event_type |-> eventType,
                      is_deleted |-> FALSE,
                      gsi_global_pk |-> "GLOBAL",
                      is_archived |-> FALSE,
                      ai_summary |-> Undefined,
                      ai_insight |-> Undefined]]

\* extractIdForDelete without the third tier
extractIdForDelete_keysOnly(t, keys, hasOldImage, oldImage) ==
    LET k1 == IF t.hasExtractIdFromKeys THEN extractIdFromKeys(t, keys)
                                         ELSE Thrown("not implemented")
        k2 == extractId(t, keys)
    IN IF k1.ok THEN k1
       ELSE IF k2.ok THEN k2
       ELSE Thrown("Cannot extract ID for delete: no valid keys or oldImage")

\* extractIdForDelete that tries the pre-change image before the key attributes
extractIdForDelete_oldImageFirst(t, keys, hasOldImage, oldImage) ==
    LET k1 == IF t.hasExtractIdFromKeys THEN extractIdFromKeys(t, keys)
                                         ELSE Thrown("not implemented")
        k2 == extractId(t, keys)
        k3 == IF hasOldImage THEN extractId(t, oldImage) ELSE Thrown("no oldImage")
    IN IF k3.ok THEN k3
       ELSE IF k1.ok THEN k1
       ELSE IF k2.ok THEN k2
       ELSE Thrown("Cannot extract ID for delete: no valid keys or oldImage")

extractIdForDelete(t, keys, hasOldImage, oldImage) ==
    LET k1 == IF t.hasExtractIdFromKeys THEN extractIdFromKeys(t, keys)
                                         ELSE Thrown("not implemented")
        k2 == extractId(t, keys)
        k3 == IF hasOldImage THEN extractId(t, oldImage) ELSE Thrown("no oldImage")
    IN IF k1.ok THEN k1
       ELSE IF k2.ok THEN k2
       ELSE IF k3.ok THEN k3
       ELSE Thrown("Cannot extract ID for delete: no valid keys or oldImage")

----------------------------------------------------------------------------
\* The world a handler step acts on, and the outcomes of its external calls
\*   w   = [store, queue, reserved, nsend, trace]
\*   env = [now, outs, urlSet, pubs, dbOk, delOk, lineage]
\* outs[i] is what the i-th backend invocation does, pubs[i] whether the
\* i-th SQS publish succeeds.

Effect(op, pk, n, res) == [op |-> op, pk |-> pk, n |-> n, res |-> res]

Log(w, op, pk, n, res) == [w EXCEPT !.trace = Append(@, Effect(op, pk, n, res))]

Key(pk, sk) == [PK |-> pk, SK |-> sk]

RowKey(row) == Key(row.PK, row.SK)

----------------------------------------------------------------------------
\* DlqService.sendToQueue (shared/services/dlq-service.ts)

\* SQS gives every message an id of its own: the least id no message in the
\* queue or in the hands of a redrive invocation carries
FreshMid(w) ==
    LET used == {m.mid : m \in w.queue} \cup w.reserved
    IN CHOOSE i \in 1..(Cardinality(used) + 1) :
            i \notin used /\ \A j \in 1..(i - 1) : j \in used

PubOk(env, n) == IF n \in DOMAIN env.pubs THEN env.pubs[n] ELSE env.pubs[Len(env.pubs)]

\* a publish whose catch block rethrows
sendToQueue_rethrows(w, env, record, errorType, errorMessage, retryCount) ==
    LET w0 == Log(w, "sendToQueue", record.PK, retryCount, errorType)
    IN IF ~env.urlSet
       THEN [w |-> w0, threw |-> FALSE]
       ELSE LET message == [mid |-> FreshMid(w0), malformed |-> FALSE, record |-> record,
                            errorType |-> errorType, errorMessage |-> errorMessage,
                            timestamp |-> env.now, retryCount |-> retryCount,
                            holder |-> 0, lineage |-> env.lineage]
                n == w0.nsend + 1
                w1 == [Log(w0, "sqs.send", record.PK, retryCount,
                           IF PubOk(env, n) THEN "ok" ELSE "error") EXCEPT !.nsend = n]
            IN IF PubOk(env, n)
               THEN [w |-> [w1 EXCEPT !.queue = @ \cup {message}], threw |-> FALSE]
               ELSE [w |-> w1, threw |-> TRUE]

\* the part after the queue URL test: build the message, send it, catch
publish(w0, env, record, errorType, errorMessage, retryCount) ==
    LET message == [mid |-> FreshMid(w0),
                    malformed |-> FALSE,
                    record |-> record,
                    errorType |-> errorType,
                    errorMessage |-> errorMessage,
                    timestamp |-> env.now,
                    retryCount |-> retryCount,
                    \* bookkeeping of SQS and of the model, not in the body:
                    \* who holds the message in flight, and how many
                    \* unsuccessful redrive attempts its record went through
                    holder |-> 0,
                    lineage |-> env.lineage]
        sent == PubOk(env, w0.nsend + 1)
    IN \* the catch block logs and does not rethrow
       [w |-> [Log(w0, "sqs.send", record.PK, retryCount, IF sent THEN "ok" ELSE "error")
                 EXCEPT !.nsend = @ + 1,
                        !.queue = IF sent THEN @ \cup {message} ELSE @],
        threw |-> FALSE]

sendToQueue(w, env, record, errorType, errorMessage, retryCount) ==
    IF ~env.urlSet
    THEN [w |-> Log(w, "sendToQueue", record.PK, retryCount, errorType), threw |-> FALSE]
    ELSE publish(Log(w, "sendToQueue", record.PK, retryCount, errorType),
                 env, record, errorType, errorMessage, retryCount)

----------------------------------------------------------------------------
\* AiService.generateEnrichment (shared/services/ai-service.ts, retrying version)

\* A backend outcome is either an invocation error or a response text;
\* a response text is a sequence of tokens.
Tok(k, s, i) == [k |-> k, summary |-> s, insight |-> i]
FenceJson == Tok("fence_json", "", "")
Fence == Tok("fence", "", "")
Newline == Tok("ws", "", "")
Prose == Tok("text", "", "")
Obj(s, i) == Tok("obj", s, i)

BackendError == [err |-> TRUE, text |-> <<>>]
Response(text) == [err |-> FALSE, text |-> text]

RECURSIVE TrimLeft(_)
TrimLeft(s) == IF s # <<>> /\ Head(s).k = "ws" THEN TrimLeft(Tail(s)) ELSE s

RECURSIVE TrimRight(_)
TrimRight(s) ==
    IF s # <<>> /\ s[Len(s)].k = "ws" THEN TrimRight(SubSeq(s, 1, Len(s) - 1)) ELSE s

\* a cleaning that trims the response without removing the fence markers
CleanJson_keepsFence(responseText) == TrimRight(TrimLeft(responseText))

\* responseText.replace(/(fence)json/g, '').replace(/(fence)/g, '').trim()
CleanJson(responseText) ==
    LET a == SelectSeq(responseText, LAMBDA t : t.k # "fence_json")
        b == SelectSeq(a, LAMBDA t : t.k # "fence")
    IN TrimRight(TrimLeft(b))

\* JSON.parse(cleanJson) followed by the reads of parsed.summary / parsed.insight
ParseOk(cleanJson) == Len(cleanJson) = 1 /\ cleanJson[1].k = "obj"

\* a read of the parsed field without its default
StrOr_raw(s, d) == s

\* parsed.summary || "Unable to generate summary."
StrOr(s, d) == IF s = "" \/ s = Undefined THEN d ELSE s

OutAt(env, i) == IF i \in DOMAIN env.outs THEN env.outs[i] ELSE env.outs[Len(env.outs)]

Fallback == [summary |-> FallbackSummary, insight |-> FallbackInsight]

GenResult(w, threw, e) == [w |-> w, threw |-> threw, summary |-> e.summary, insight |-> e.insight]

\* the fallback returned after the dead-letter publish s
FallbackAfter(s) == GenResult(s.w, s.threw, Fallback)

RECURSIVE generateAttempt(_, _, _, _)

\* an outer catch block that retries once more instead of publishing
ApiErrorPath_retriesPastBudget(w, env, record, attempt) ==
    IF attempt <= maxRetries
    THEN generateAttempt(Log(w, "delay", record.PK, 1000 * attempt, "api"), env, record, attempt + 1)
    ELSE LET s == sendToQueue(w, env, record, "BEDROCK_API_ERROR", "Failed after 3 attempts", 0)
         IN GenResult(s.w, s.threw, Fallback)

\* an outer catch block that, with the attempts used up, invokes the backend
\* once more (and fails) before it gives up
ApiErrorPath_extraInvocation(w, env, record, attempt) ==
    IF attempt < maxRetries
    THEN generateAttempt(Log(w, "delay", record.PK, 1000 * attempt, "api"), env, record, attempt + 1)
    ELSE FallbackAfter(sendToQueue(Log(w, "invoke", record.PK, attempt + 1, "error"),
                                   env, record, "BEDROCK_API_ERROR",
                                   "Failed after 3 attempts", 0))

\* the outer catch block of one attempt
ApiErrorPath(w, env, record, attempt) ==
    IF attempt < maxRetries
    THEN generateAttempt(Log(w, "delay", record.PK, 1000 * attempt, "api"), env, record, attempt + 1)
    ELSE FallbackAfter(sendToQueue(w, env, record, "BEDROCK_API_ERROR",
                                   "Failed after 3 attempts", 0))

\* after the publish of the inner catch block
parseExhausted(s, env, record, attempt) ==
    IF s.threw
    THEN \* thrown inside the inner catch: the outer catch takes it
         ApiErrorPath(s.w, env, record, attempt)
    ELSE GenResult(s.w, FALSE, Fallback)

\* an inner catch block that reports the parse failure as an API error
parseResponse_apiErrorType(w1, env, record, attempt, cleanJson) ==
    IF ParseOk(cleanJson)
    THEN GenResult(w1, FALSE,
                   [summary |-> StrOr(cleanJson[1].summary, FallbackSummary),
                    insight |-> StrOr(cleanJson[1].insight, FallbackInsight)])
    ELSE IF attempt < maxRetries
         THEN generateAttempt(Log(w1, "delay", record.PK, 500 * attempt, "parse"),
                              env, record, attempt + 1)
         ELSE parseExhausted(sendToQueue(w1, env, record, "BEDROCK_API_ERROR",
                                         "Failed after 3 attempts", 0),
                             env, record, attempt)

\* an inner catch block that waits 500 ms after every parse failure
parseResponse_flatDelay(w1, env, record, attempt, cleanJson) ==
    IF ParseOk(cleanJson)
    THEN GenResult(w1, FALSE,
                   [summary |-> StrOr(cleanJson[1].summary, FallbackSummary),
                    insight |-> StrOr(cleanJson[1].insight, FallbackInsight)])
    ELSE IF attempt < maxRetries
         THEN generateAttempt(Log(w1, "delay", record.PK, 500, "parse"),
                              env, record, attempt + 1)
         ELSE parseExhausted(sendToQueue(w1, env, record, "INVALID_JSON_RESPONSE",
                                         "Failed after 3 attempts", 0),
                             env, record, attempt)

\* the inner try/catch: JSON.parse of the cleaned text and its catch block
parseResponse(w1, env, record, attempt, cleanJson) ==
    IF ParseOk(cleanJson)
    THEN GenResult(w1, FALSE,
                   [summary |-> StrOr(cleanJson[1].summary, FallbackSummary),
                    insight |-> StrOr(cleanJson[1].insight, FallbackInsight)])
    ELSE IF attempt < maxRetries
         THEN generateAttempt(Log(w1, "delay", record.PK, 500 * attempt, "parse"),
                              env, record, attempt + 1)
         ELSE parseExhausted(sendToQueue(w1, env, record, "INVALID_JSON_RESPONSE",
                                         "Failed after 3 attempts", 0),
                             env, record, attempt)

InvokeResult(o) ==
    IF o.err THEN "error" ELSE IF ParseOk(CleanJson(o.text)) THEN "ok" ELSE "unparsable"

\* one attempt once the backend has been invoked with outcome o
invoked(w1, env, record, attempt, o) ==
    IF o.err
    THEN ApiErrorPath(w1, env, record, attempt)
    ELSE parseResponse(w1, env, record, attempt, CleanJson(o.text))

generateAttempt(w, env, record, attempt) ==
    IF attempt > maxRetries
    THEN GenResult(w, FALSE, Fallback)
    ELSE invoked(Log(w, "invoke", record.PK, attempt, InvokeResult(OutAt(env, attempt))),
                 env, record, attempt, OutAt(env, attempt))

generateEnrichment(w, env, record) == generateAttempt(w, env, record, 1)

----------------------------------------------------------------------------
\* enrichUnifiedRecord (shared/utils/enrichment.ts)

Truthy(s) == s # "" /\ s # Undefined

\* an enrichment that regenerates whatever the record already carries
enrichUnifiedRecord_regenerates(w, env, record) ==
    IF record.event_type = "REMOVE" \/ record.is_deleted
    THEN [w |-> w, threw |-> FALSE, rec |-> record]
    ELSE LET g == generateEnrichment(w, env, record)
         IN [w |-> g.w, threw |-> g.threw,
             rec |-> [record EXCEPT !.ai_summary = g.summary,
                                    !.ai_insight = g.insight]]

\* the catch block once the dead-letter publish s has been made
withFallback(record, s) ==
    [w |-> s.w, threw |-> s.threw,
     rec |-> [record EXCEPT !.ai_summary = FallbackSummary,
                            !.ai_insight = FallbackInsight]]

\* the try block once generateEnrichment has ended as g
enrichedWith(env, record, g) ==
    IF ~g.threw
    THEN [w |-> g.w, threw |-> FALSE,
          rec |-> [record EXCEPT !.ai_summary = g.summary,
                                 !.ai_insight = g.insight]]
    ELSE withFallback(record, sendToQueue(g.w, env, record, "ENRICHMENT_FAILED", "error", 0))

\* an enrichment that tests only the enrichment fields of the record
enrichUnifiedRecord_enrichesDeleted(w, env, record) ==
    IF Truthy(record.ai_summary) /\ Truthy(record.ai_insight)
    THEN [w |-> w, threw |-> FALSE, rec |-> record]
    ELSE enrichedWith(env, record, generateEnrichment(w, env, record))

enrichUnifiedRecord(w, env, record) ==
    IF Truthy(record.ai_summary) /\ Truthy(record.ai_insight)
    THEN [w |-> w, threw |-> FALSE, rec |-> record]
    ELSE IF record.event_type = "REMOVE" \/ record.is_deleted
    THEN [w |-> w, threw |-> FALSE, rec |-> record]
    ELSE enrichedWith(env, record, generateEnrichment(w, env, record))

----------------------------------------------------------------------------
\* Unified table operations (shared/utils/dynamodb-client.ts)

RowsAt(st, k) == {r \in st : RowKey(r) = k}

\* PutCommand: unconditional overwrite of the item under the same key
PutItem(st, item) == (st \ RowsAt(st, RowKey(item))) \cup {item}

putUnifiedRecord(w, env, record) ==
    IF env.dbOk
    THEN [w |-> [Log(w, "put", record.PK, 1, "ok") EXCEPT !.store = PutItem(@, record)],
          threw |-> FALSE]
    ELSE [w |-> Log(w, "put", record.PK, 0, "error"), threw |-> TRUE]

\* the record a soft delete rebuilds from the template of the source
softDeleted_rebuilt(existing, t0) ==
    [existing EXCEPT !.is_deleted = TRUE, !.event_type = "REMOVE", !.updated_at = t0,
                     !.is_archived = FALSE, !.ai_summary = Undefined,
                     !.ai_insight = Undefined]

\* { ...existingRecord.Item, is_deleted: true, event_type: 'REMOVE', updated_at: now }
softDeleted(existing, t0) ==
    [existing EXCEPT !.is_deleted = TRUE, !.event_type = "REMOVE", !.updated_at = t0]

\* a soft delete that writes a tombstone when it finds no row
softDeleteFound_creates(w, env, pk, sk, found) ==
    putUnifiedRecord(w, env, [PK |-> pk, SK |-> sk, is_deleted |-> TRUE,
                              event_type |-> "REMOVE", updated_at |-> env.now])

\* softDeleteUnifiedRecord once the GetCommand has answered with the rows found
softDeleteFound(w, env, pk, sk, found) ==
    IF found = {}
    THEN [w |-> w, threw |-> FALSE]
    ELSE putUnifiedRecord(w, env, softDeleted(CHOOSE r \in found : TRUE, env.now))

softDeleteUnifiedRecord(w, env, pk, sk) ==
    IF ~env.getOk
    THEN [w |-> Log(w, "get", pk, 0, "error"), threw |-> TRUE]
    ELSE softDeleteFound(Log(w, "get", pk, 1, "ok"), env, pk, sk,
                         RowsAt(w.store, Key(pk, sk)))

hardDeleteUnifiedRecord(w, env, pk, sk) ==
    IF env.dbOk
    THEN [w |-> [Log(w, "delete", pk, 1, "ok") EXCEPT !.store = @ \ RowsAt(@, Key(pk, sk))],
          threw |-> FALSE]
    ELSE [w |-> Log(w, "delete", pk, 0, "error"), threw |-> TRUE]

----------------------------------------------------------------------------
\* Change events delivered by the upstream streams

NoImage == [absent |-> TRUE]

StreamRecord(eventName, hasKeys, keys, hasNew, new, hasOld, old) ==
    [eventName |-> eventName,
     hasKeys |-> hasKeys, Keys |-> keys,
     hasNewImage |-> hasNew, NewImage |-> new,
     hasOldImage |-> hasOld, OldImage |-> old]

\* a source item with and without its createdAt attribute
WithCreatedAt(img) == {img, img @@ [createdAt |-> 0]}

Item(t) ==
    CASE t.name = "notes" ->
            [userId |-> <<"u1">>, noteId |-> <<"n1">>, title |-> "Hi", content |-> "Hello"]
      [] t.name = "thoughts" ->
            [userId |-> <<"u1">>, thoughtId |-> <<"t1">>, content |-> "Idea", tagName |-> "tag"]
      [] t.name = "soliloquies" ->
            [soliloquyId |-> <<"s1">>, userId |-> <<"u1">>,
             normalizedContent |-> "Spoken", durationSeconds |-> 7]

Images(t) == WithCreatedAt(Item(t))

\* items that lack an identity attribute
BadImages(t) ==
    CASE t.name = "notes" -> {[noteId |-> <<"n1">>, title |-> "Hi"]}
      [] t.name = "thoughts" -> {[userId |-> <<"u1">>, content |-> "Idea"]}
      [] t.name = "soliloquies" -> {[userId |-> <<"u1">>, normalizedContent |-> "Spoken"]}

\* the key attributes of a source item
KeysOf(t, img) ==
    CASE t.name = "notes" -> [userId |-> GetId(img, "userId"), noteId |-> GetId(img, "noteId")]
      [] t.name = "thoughts" -> [userId |-> GetId(img, "userId"), thoughtId |-> GetId(img, "thoughtId")]
      [] t.name = "soliloquies" -> [soliloquyId |-> GetId(img, "soliloquyId")]

UpsertEvents(t) ==
    {StreamRecord(n, TRUE, KeysOf(t, img), TRUE, img, FALSE, NoImage)
        : n \in {"INSERT", "MODIFY"}, img \in Images(t) \cup BadImages(t)}
    \cup
    {StreamRecord(n, TRUE, KeysOf(t, Item(t)), FALSE, NoImage, FALSE, NoImage)
        : n \in {"INSERT", "MODIFY"}}

RemoveEvents(t) ==
    {StreamRecord("REMOVE", TRUE, KeysOf(t, Item(t)), FALSE, NoImage, FALSE, NoImage),
     StreamRecord("REMOVE", TRUE, [other |-> <<"x">>], FALSE, NoImage, TRUE, Item(t)),
     StreamRecord("REMOVE", TRUE, [other |-> <<"x">>], FALSE, NoImage, FALSE, NoImage),
     StreamRecord("REMOVE", FALSE, NoImage, FALSE, NoImage, FALSE, NoImage)}

Events(t) == UpsertEvents(t) \cup RemoveEvents(t)

\* the events the whole-pipeline specification feeds the notes processor
PipelineEvents(t) ==
    {StreamRecord("INSERT", TRUE, KeysOf(t, Item(t)), TRUE, Item(t), FALSE, NoImage),
     StreamRecord("REMOVE", TRUE, KeysOf(t, Item(t)), FALSE, NoImage, FALSE, NoImage)}

----------------------------------------------------------------------------
\* Outcomes of the external calls of one handler step

Unparsable == Response(<<Prose>>)
Answer == Response(<<Obj("S", "I")>>)

Answers(o) == ~o.err /\ ParseOk(CleanJson(o.text))

Exhausts(outs) == \A i \in DOMAIN outs : ~Answers(outs[i])

AllFail == [i \in 1..maxRetries |-> BackendError]

Once(o) == [i \in 1..maxRetries |-> o]

\* k failures of one kind, then an answer; or failures only
FailThenAnswer(f, k) == [i \in 1..maxRetries |-> IF i <= k THEN f ELSE Answer]

OutSeqs ==
    {FailThenAnswer(f, k) : f \in {BackendError, Unparsable}, k \in 0..maxRetries}

\* the whole-pipeline specification tells the backend outcomes apart only as
\* error or answer
PipelineOutSeqs == {FailThenAnswer(BackendError, k) : k \in 0..maxRetries}

\* a stream processor also meets an answer that lacks both fields
StreamOutSeqs == PipelineOutSeqs \cup {Once(Response(<<Obj("", Undefined)>>))}

PubSeqs == [1..2 -> BOOLEAN]

Dlq(urlSet, pubs) == [urlSet |-> urlSet, pubs |-> pubs]

DlqUnset == Dlq(FALSE, <<FALSE, FALSE>>)

\* getOk: whether the store answers a GetCommand
Env(t0, outs, dlq, dbOk, delOk, lineage) ==
    [now |-> t0, outs |-> outs, urlSet |-> dlq.urlSet, pubs |-> dlq.pubs,
     dbOk |-> dbOk, delOk |-> delOk, lineage |-> lineage, getOk |-> TRUE]

----------------------------------------------------------------------------
\* Inputs of a handler step.  An outcome that the step cannot consume (the
\* publish outcome when the backend answers, the backend when the event is
\* skipped) is fixed instead of enumerated.

Enriches(t, record) ==
    /\ record.eventName # "REMOVE"
    /\ record.hasNewImage
    /\ extractId(t, record.NewImage).ok

\* a stream processor publishes at most once per event
StreamDlq == {DlqUnset, Dlq(TRUE, <<TRUE, TRUE>>), Dlq(TRUE, <<FALSE, FALSE>>)}

StreamInputs(t, record, seqs) ==
    IF Enriches(t, record)
    THEN {<<outs, dlq>> \in seqs \X StreamDlq : ~Exhausts(outs) => dlq = DlqUnset}
    ELSE {<<AllFail, DlqUnset>>}

RedriveInputs(m, seqs) ==
    IF m.malformed \/ m.retryCount >= MAX_RETRY_COUNT
    THEN {<<AllFail, <<TRUE, TRUE>>, TRUE>>}
    ELSE {<<outs, pubs, dbOk>> \in seqs \X PubSeqs \X BOOLEAN :
            IF Exhausts(outs) THEN dbOk ELSE pubs = <<TRUE, TRUE>>}

----------------------------------------------------------------------------
\* Stream processors (lambdas/*-stream-processor/handler.ts)

Outcome(w, threw, outcome, pk) == [w |-> w, threw |-> threw, outcome |-> outcome, pk |-> pk]

\* thoughts resolves the identity of a REMOVE from the keys alone
UsesExtractIdForDelete(t) == t.name \in {"notes", "soliloquies"}

\* how a store call r ends the processing of the event
Ended(r, failure, success, pk) ==
    Outcome(r.w, r.threw, IF r.threw THEN failure ELSE success, pk)

\* the REMOVE branch once the identity x has been extracted
removeRecord(t, w, env, x) ==
    IF ~x.ok
    THEN Outcome(w, TRUE, "identity", <<>>)
    ELSE Ended(hardDeleteUnifiedRecord(w, env, Join(t.sourceTableName, x.id), SK_RECORD),
               "store", "deleted", Join(t.sourceTableName, x.id))

\* the upsert branch once the record has been enriched as e
putEnriched(env, pk, e) ==
    IF e.threw
    THEN Outcome(e.w, TRUE, "enrichment", pk)
    ELSE Ended(putUnifiedRecord(e.w, env, e.rec), "store", "put", pk)

\* an upsert branch that skips an event whose identity cannot be extracted
upsertRecord_skipsBadIdentity(w, env, b) ==
    IF ~b.ok
    THEN Outcome(w, FALSE, "skipped", <<>>)
    ELSE putEnriched(env, b.rec.PK, enrichUnifiedRecord(w, env, b.rec))

\* the upsert branch once the record has been built as b
upsertRecord(w, env, b) ==
    IF ~b.ok
    THEN Outcome(w, TRUE, "identity", <<>>)
    ELSE putEnriched(env, b.rec.PK, enrichUnifiedRecord(w, env, b.rec))

\* a processRecord that treats a missing image or missing keys as an error
processRecord_throwsOnMissing(t, w, env, record) ==
    IF record.eventName = "REMOVE"
    THEN IF ~record.hasKeys
         THEN Outcome(w, TRUE, "missing", <<>>)
         ELSE removeRecord(t, w, env,
                           IF UsesExtractIdForDelete(t)
                           THEN extractIdForDelete(t, record.Keys, record.hasOldImage,
                                                   record.OldImage)
                           ELSE extractId(t, record.Keys))
    ELSE IF ~record.hasNewImage
         THEN Outcome(w, TRUE, "missing", <<>>)
         ELSE upsertRecord(w, env,
                           buildUnifiedRecord(t, record.NewImage, record.eventName, env.now))

processRecord(t, w, env, record) ==
    IF record.eventName = "REMOVE"
    THEN IF ~record.hasKeys
         THEN Outcome(w, FALSE, "skipped", <<>>)
         ELSE removeRecord(t, w, env,
                           IF UsesExtractIdForDelete(t)
                           THEN extractIdForDelete(t, record.Keys, record.hasOldImage,
                                                   record.OldImage)
                           ELSE extractId(t, record.Keys))
    ELSE IF ~record.hasNewImage
         THEN Outcome(w, FALSE, "skipped", <<>>)
         ELSE upsertRecord(w, env,
                           buildUnifiedRecord(t, record.NewImage, record.eventName, env.now))

NoCount == [succeeded |-> 0, failed |-> 0, requeued |-> 0]

NoResult == [processed |-> 0, succeeded |-> 0, failed |-> 0, requeued |-> 0]

\* what the last step was: the operation, its subject, how it ended, and
\* whether the handler it belongs to is still running, resolved or rejected
NoStep == [op |-> "none", who |-> "", kind |-> "", accepted |-> FALSE, dbOk |-> TRUE,
           arg |-> <<>>, ret |-> <<>>, env |-> <<>>,
           pk |-> <<>>, outcome |-> "", threw |-> FALSE,
           mid |-> 0, rc |-> 0, lineage |-> 0, before |-> {},
           counted |-> NoCount, handler |-> "", result |-> NoResult]

Idle(src) == [status |-> "idle", src |-> src, left |-> 0]

Reserved == UNION {{m.mid : m \in rd[r].pending} : r \in DOMAIN rd}

World == [store |-> store, queue |-> queue, reserved |-> Reserved,
          nsend |-> 0, trace |-> <<>>]

QueueIds == {m.mid : m \in queue}

\* the step leaves at most n messages in the queue
QueueWithin(n) == Cardinality(queue') <= n

\* the handler is invoked with a batch of n events
StreamStart(t, n) ==
    /\ inv.status = "idle"
    /\ inv.src = t.name
    /\ inv' = [status |-> "running", src |-> t.name, left |-> n]
    /\ trace' = <<>>
    /\ last' = [NoStep EXCEPT !.op = "handler", !.who = t.name, !.handler = "running"]
    /\ UNCHANGED <<store, queue, now, rd>>

\* the handler's loop has run processRecord on the event with result r
StreamStepped(t, record, dbOk, r) ==
    /\ store' = r.w.store
    /\ queue' = r.w.queue
    /\ trace' = r.w.trace
    /\ inv' = IF r.threw \/ inv.left = 1 THEN Idle(inv.src)
              ELSE [inv EXCEPT !.left = @ - 1]
    /\ last' = [NoStep EXCEPT !.op = "processRecord", !.who = t.name,
                              !.kind = record.eventName,
                              !.accepted = Enriches(t, record),
                              !.dbOk = dbOk, !.pk = r.pk,
                              !.outcome = r.outcome, !.threw = r.threw,
                              !.before = QueueIds,
                              !.handler = IF r.threw THEN "rejected"
                                          ELSE IF inv.left = 1 THEN "resolved"
                                          ELSE "running"]

\* one iteration of the handler's loop: processRecord on the next event; an
\* exception rejects the invocation, the last event resolves it
StreamStep(record, outs, dlq, dbOk) ==
    /\ inv.status = "running"
    /\ StreamStepped(getTransformer(inv.src), record, dbOk,
                     processRecord(getTransformer(inv.src), World,
                                   Env(now, outs, dlq, dbOk, TRUE, 0), record))
    /\ UNCHANGED <<now, rd>>

----------------------------------------------------------------------------
\* Redrive handler (lambdas/dlq-redrive/handler.ts)

RedriveIds == {1}

Counted(c, field) == [c EXCEPT ![field] = @ + 1]

Processed(w, threw, outcome, counted) ==
    [w |-> w, threw |-> threw, escaped |-> FALSE, outcome |-> outcome, counted |-> counted]

\* sqsClient.send(new DeleteMessageCommand(...))
deleteMessage(w, env, m) ==
    IF env.delOk
    THEN [w |-> [Log(w, "sqs.delete", <<>>, m.mid, "ok")
                    EXCEPT !.queue = {x \in @ : x.mid # m.mid}],
          threw |-> FALSE]
    ELSE [w |-> Log(w, "sqs.delete", <<>>, m.mid, "error"), threw |-> TRUE]

\* a catch block that counts the failure and rethrows
Caught_rethrows(w, outcome, counted) ==
    [Processed(w, TRUE, outcome, Counted(counted, "failed")) EXCEPT !.escaped = TRUE]

\* the catch block of the loop body: count the message as failed, keep it queued
Caught(w, outcome, counted) == Processed(w, TRUE, outcome, Counted(counted, "failed"))

\* a retry limit that is off by one
RetriesExhausted_strict(m) == m.retryCount > MAX_RETRY_COUNT

\* if (retryCount >= MAX_RETRY_COUNT)
RetriesExhausted(m) == m.retryCount >= MAX_RETRY_COUNT

\* a branch that ends with the delete d of the message, counted as c
Deleted(d, outcome, c) ==
    IF d.threw THEN Caught(d.w, "error", c)
               ELSE Processed(d.w, FALSE, outcome, c)

\* the success branch once the put u has been made: count, delete
saved(env, m, u) ==
    IF u.threw
    THEN Caught(u.w, "error", NoCount)
    ELSE Deleted(deleteMessage(u.w, env, m), "succeeded", Counted(NoCount, "succeeded"))

\* a success branch that deletes the message before it saves the record
commitSuccess_deleteFirst(w, env, m, enrichedRecord) ==
    LET d == deleteMessage(w, env, m)
    IN IF d.threw THEN Caught(d.w, "error", NoCount)
       ELSE LET u == putUnifiedRecord(d.w, env, enrichedRecord)
            IN IF u.threw THEN Caught(u.w, "error", NoCount)
               ELSE Processed(u.w, FALSE, "succeeded", Counted(NoCount, "succeeded"))

\* the branch taken when the re-enrichment succeeded: save, count, delete
commitSuccess(w, env, m, enrichedRecord) ==
    saved(env, m, putUnifiedRecord(w, env, enrichedRecord))

\* the failure branch once the publish q has been made: count, delete
requeued(env, m, q) ==
    IF q.threw
    THEN Caught(q.w, "error", NoCount)
    ELSE Deleted(deleteMessage(q.w, env, m), "requeued", Counted(NoCount, "requeued"))

\* a success test that looks at the summary only
enrichmentSucceeded_summaryOnly(enrichedRecord) ==
    enrichedRecord.ai_summary # FallbackSummary

\* enrichedRecord.ai_summary !== 'Unable to generate summary.' && ...
enrichmentSucceeded(enrichedRecord) ==
    /\ enrichedRecord.ai_summary # FallbackSummary
    /\ enrichedRecord.ai_insight # FallbackInsight

\* the loop body once the record has been re-enriched as e
reenriched(env, m, e) ==
    IF e.threw THEN Caught(e.w, "error", NoCount)
    ELSE IF enrichmentSucceeded(e.rec)
    THEN commitSuccess(e.w, env, m, e.rec)
    ELSE requeued(env, m, sendToQueue(e.w, env, m.record, "ENRICHMENT_FAILED",
                                      "Redrive enrichment failed", m.retryCount + 1))

\* the record with its enrichment fields cleared
cleanRecord(m) == [m.record EXCEPT !.ai_summary = Undefined, !.ai_insight = Undefined]

\* the body of the for loop for one received message
processMessage(w, env, m) ==
    IF m.malformed
    THEN Caught(w, "error", NoCount)
    ELSE IF RetriesExhausted(m)
    THEN Deleted(deleteMessage(w, env, m), "abandoned", Counted(NoCount, "failed"))
    ELSE reenriched(env, m, enrichUnifiedRecord(w, env, cleanRecord(m)))

NotStarted == [status |-> "idle", pending |-> {}, result |-> NoResult]

Visible == {m \in queue : m.holder = 0}

\* the handler starts: it throws when the queue URL is not set, else it
\* receives up to BATCH_SIZE visible messages, which become invisible; with
\* nothing received it returns at once
RedriveStart(r, urlSet, batch) ==
    /\ rd[r].status = "idle"
    /\ batch \subseteq Visible
    /\ Cardinality(batch) <= BATCH_SIZE
    /\ ~urlSet => batch = {}
    /\ LET held == {[m EXCEPT !.holder = r] : m \in batch}
       IN /\ rd' = [rd EXCEPT ![r] =
                      IF batch = {} THEN NotStarted
                      ELSE [status |-> "running", pending |-> held, result |-> NoResult]]
          /\ queue' = (queue \ batch) \cup held
    /\ trace' = <<>>
    /\ last' = [NoStep EXCEPT !.op = "redrive", !.threw = ~urlSet,
                              !.handler = IF ~urlSet THEN "rejected"
                                          ELSE IF batch = {} THEN "resolved"
                                          ELSE "running"]
    /\ UNCHANGED <<store, now, inv>>

Sum(res, c) == [processed |-> res.processed + 1,
                succeeded |-> res.succeeded + c.succeeded,
                failed |-> res.failed + c.failed,
                requeued |-> res.requeued + c.requeued]

\* the loop body has run on m and ended as p, leaving the messages rest
RedriveStepped(r, m, dbOk, p, rest) ==
    /\ store' = p.w.store
    /\ queue' = p.w.queue
    /\ trace' = p.w.trace
    /\ rd' = [rd EXCEPT ![r] =
                IF p.escaped \/ rest = {} THEN NotStarted
                ELSE [status |-> "running", pending |-> rest,
                      result |-> Sum(rd[r].result, p.counted)]]
    /\ last' = [NoStep EXCEPT !.op = "processMessage",
                              !.kind = IF m.malformed THEN "malformed" ELSE "message",
                              !.dbOk = dbOk,
                              !.pk = IF m.malformed THEN <<>> ELSE m.record.PK,
                              !.outcome = p.outcome, !.threw = p.threw,
                              !.mid = m.mid,
                              !.rc = IF m.malformed THEN 0 ELSE m.retryCount,
                              !.lineage = IF m.malformed THEN 0 ELSE m.lineage,
                              !.before = QueueIds,
                              !.counted = p.counted,
                              !.handler = IF p.escaped THEN "rejected"
                                          ELSE IF rest = {} THEN "resolved"
                                          ELSE "running",
                              !.result = Sum(rd[r].result, p.counted)]

\* one iteration of the loop over the received messages; after the last one
\* the handler returns the counts.  lineage is the bookkeeping value given to
\* the messages this step publishes.
RedriveStep(r, m, outs, pubs, dbOk, delOk, lineage) ==
    /\ rd[r].status = "running"
    /\ m \in rd[r].pending
    /\ RedriveStepped(r, m, dbOk,
                      processMessage(World, Env(now, outs, Dlq(TRUE, pubs), dbOk, delOk, lineage), m),
                      rd[r].pending \ {m})
    /\ UNCHANGED <<now, inv>>

\* the visibility timeout of a received message expires
VisibilityTimeout(m) ==
    /\ m \in queue
    /\ m.holder # 0
    /\ queue' = (queue \ {m}) \cup {[m EXCEPT !.holder = 0]}
    /\ trace' = <<>>
    /\ last' = [NoStep EXCEPT !.op = "timeout", !.mid = m.mid]
    /\ UNCHANGED <<store, now, inv, rd>>

\* a message whose body is not a dead-letter message reaches the queue
ForeignMessage ==
    /\ Cardinality(queue) < MaxQueue
    /\ queue' = queue \cup {[mid |-> FreshMid(World), malformed |-> TRUE, holder |-> 0]}
    /\ trace' = <<>>
    /\ last' = [NoStep EXCEPT !.op = "foreign", !.mid = FreshMid(World)]
    /\ UNCHANGED <<store, now, inv, rd>>

Tick ==
    /\ now < MaxTime
    /\ now' = now + 1
    /\ trace' = <<>>
    /\ last' = [NoStep EXCEPT !.op = "tick"]
    /\ UNCHANGED <<store, queue, inv, rd>>

----------------------------------------------------------------------------
\* The whole pipeline for one source: the notes processor, the dead-letter
\* queue and the redrive handler, one handler invocation at a time

NoRedriveRunning == \A r \in RedriveIds : rd[r].status = "idle"

Init ==
    /\ store = {}
    /\ queue = {}
    /\ now = 0
    /\ inv = Idle("notes")
    /\ rd = [r \in RedriveIds |-> NotStarted]
    /\ trace = <<>>
    /\ last = NoStep

Next ==
    \/ \E n \in 1..MaxBatch : NoRedriveRunning /\ StreamStart(notesTransformer, n)
    \/ \E record \in PipelineEvents(notesTransformer) :
         \E x \in StreamInputs(notesTransformer, record, PipelineOutSeqs) : \E dbOk \in BOOLEAN :
            StreamStep(record, x[1], x[2], dbOk) /\ QueueWithin(MaxQueue)
    \/ \E r \in RedriveIds : \E urlSet \in BOOLEAN : \E batch \in SUBSET Visible :
            inv.status = "idle" /\ RedriveStart(r, urlSet, batch)
    \/ \E r \in RedriveIds : \E m \in rd[r].pending :
         \E x \in RedriveInputs(m, PipelineOutSeqs) : \E delOk \in BOOLEAN :
            RedriveStep(r, m, x[1], x[2], x[3], delOk, 0) /\ QueueWithin(MaxQueue)
    \/ \E m \in queue : VisibilityTimeout(m)
    \/ ForeignMessage

Spec == Init /\ [][Next]_vars

----------------------------------------------------------------------------
\* One stream processor with its table rows and the dead-letter queue, under
\* a running clock: the processor of any one source, every kind of event

Sources == {notesTransformer, thoughtsTransformer, soliloquiesTransformer}

InitStream ==
    /\ store = {}
    /\ queue = {}
    /\ now = 0
    /\ inv \in {Idle(t.name) : t \in Sources}
    /\ rd = [r \in RedriveIds |-> NotStarted]
    /\ trace = <<>>
    /\ last = NoStep

NextStream ==
    \/ \E t \in Sources : \E n \in 1..MaxBatch : StreamStart(t, n)
    \/ \E t \in Sources : \E record \in Events(t) :
         \E x \in StreamInputs(t, record, StreamOutSeqs) : \E dbOk \in BOOLEAN :
            inv.src = t.name /\ StreamStep(record, x[1], x[2], dbOk)
                             /\ QueueWithin(MaxQueue)
    \/ Tick

SpecStream == InitStream /\ [][NextStream]_vars

----------------------------------------------------------------------------
\* enrichUnifiedRecord as a function: the record, the backend outcomes and the
\* dead-letter queue configuration are drawn at the start and the function is
\* applied once

EnrichOutSeqs ==
    OutSeqs \cup
    {Once(Response(<<FenceJson, Newline, Obj("S", "I"), Newline, Fence>>)),
     Once(Response(<<Obj("", "I")>>)),
     Once(Response(<<Obj("S", Undefined)>>)),
     <<BackendError, Unparsable, BackendError>>,
     <<Unparsable, BackendError, Unparsable>>}

AiFieldValues == {Undefined, "", "S0"}

EnrichRecords ==
    {[buildUnifiedRecord(t, Item(t), e, 0).rec
         EXCEPT !.ai_summary = s, !.ai_insight = i, !.is_deleted = d]
       : t \in Sources, e \in {"INSERT", "MODIFY", "REMOVE"},
         s \in AiFieldValues, i \in AiFieldValues, d \in BOOLEAN}

InitEnrich ==
    /\ store = {}
    /\ queue = {}
    /\ now = 0
    /\ inv = Idle("notes")
    /\ rd = [r \in RedriveIds |-> NotStarted]
    /\ trace = <<>>
    /\ last \in {[NoStep EXCEPT !.op = "call", !.arg = record,
                                !.env = Env(0, outs, dlq, TRUE, TRUE, 0)]
                   : record \in EnrichRecords, outs \in EnrichOutSeqs, dlq \in StreamDlq}

\* the call has returned e
EnrichReturned(e) ==
    /\ store' = e.w.store
    /\ queue' = e.w.queue
    /\ trace' = e.w.trace
    /\ last' = [last EXCEPT !.op = "enrichUnifiedRecord", !.pk = last.arg.PK,
                            !.threw = e.threw, !.ret = e.rec]

EnrichCall ==
    /\ last.op = "call"
    /\ EnrichReturned(enrichUnifiedRecord(World, last.env, last.arg))
    /\ UNCHANGED <<now, inv, rd>>

NextEnrich == EnrichCall

SpecEnrich == InitEnrich /\ [][NextEnrich]_vars

----------------------------------------------------------------------------
\* Observations on the effects of the last step

Positions(op) == {i \in DOMAIN trace : trace[i].op = op}

Times(op) == Cardinality(Positions(op))

\* the last step applied enrichUnifiedRecord to a record it has to enrich
EnrichmentAttempted ==
    /\ last.op = "enrichUnifiedRecord"
    /\ ~(Truthy(last.arg.ai_summary) /\ Truthy(last.arg.ai_insight))
    /\ last.arg.event_type # "REMOVE"
    /\ ~last.arg.is_deleted

EveryInvocationFails == \A i \in DOMAIN last.env.outs : last.env.outs[i].err

\* C1: when every invocation of the generation backend fails, enriching a
\* record invokes the backend exactly three times, then calls the dead-letter
\* publish exactly once, for that record, and returns the record with the
\* fallback text in both the summary and the insight, without an exception
C1_ThreeInvocationsThenOnePublish ==
    (EnrichmentAttempted /\ EveryInvocationFails) =>
        /\ ~last.threw
        /\ Times("invoke") = 3
        /\ Times("sendToQueue") = 1
        /\ \A i \in Positions("invoke") : \A j \in Positions("sendToQueue") :
              i < j /\ trace[j].pk = last.arg.PK
        /\ last.ret = [last.arg EXCEPT !.ai_summary = FallbackSummary,
                                       !.ai_insight = FallbackInsight]

C1_Witness ==
    /\ EnrichmentAttempted
    /\ EveryInvocationFails
    /\ Times("invoke") = 3
    /\ \E m \in queue : m.errorType = "BEDROCK_API_ERROR" /\ m.record = last.arg

\* C3: a record that already carries a non-empty summary and a non-empty
\* insight is returned unchanged by enrichUnifiedRecord, with no backend
\* invocation and no dead-letter publish
C3_EnrichedRecordUntouched ==
    (/\ last.op = "enrichUnifiedRecord"
     /\ Truthy(last.arg.ai_summary)
     /\ Truthy(last.arg.ai_insight)) =>
        /\ last.ret = last.arg
        /\ ~last.threw
        /\ Times("invoke") = 0
        /\ Times("sendToQueue") = 0
        /\ queue = {}

C3_Witness ==
    /\ last.op = "enrichUnifiedRecord"
    /\ last.arg.ai_summary = "S0"
    /\ last.arg.ai_insight = "S0"
    /\ last.arg.event_type = "MODIFY"
    /\ ~last.arg.is_deleted
    /\ last.ret = last.arg

----------------------------------------------------------------------------
\* Claims about a stream processor (checked under SpecStream)

\* the last step processed an INSERT or MODIFY event that carries a new image
\* with a valid identity
UpsertEventProcessed ==
    /\ last.op = "processRecord"
    /\ last.kind \in {"INSERT", "MODIFY"}
    /\ last.accepted

RowsOf(pk) == RowsAt(store, Key(pk, SK_RECORD))

\* C2: after an INSERT or MODIFY event with a new image and a valid identity
\* has been processed, if the store accepts the put, the store holds a row
\* for the record with a non-empty summary and a non-empty insight
C2_RowCarriesSummaryAndInsight ==
    (UpsertEventProcessed /\ last.dbOk) =>
        /\ ~last.threw
        /\ \E row \in RowsOf(last.pk) :
              /\ Truthy(row.ai_summary)
              /\ Truthy(row.ai_insight)
              /\ row.event_type = last.kind

C2_Witness ==
    /\ UpsertEventProcessed
    /\ last.dbOk
    /\ Times("invoke") = 1
    /\ \E i \in Positions("invoke") : trace[i].res = "ok"
    /\ \E row \in RowsOf(last.pk) : row.ai_summary = FallbackSummary

\* C9: a dead-letter publish never throws to the caller, whether the queue
\* URL is unset or the publish fails: a stream processor that called it still
\* goes on to upsert the record, and with the store accepting the put the row
\* carries the fallback summary and insight
C9_PublishNeverThrows ==
    (last.op = "processRecord" /\ Times("sendToQueue") > 0) =>
        /\ last.outcome \in {"put", "store"}
        /\ Times("put") = 1
        /\ \A i \in Positions("sendToQueue") : \A j \in Positions("put") : i < j
        /\ last.dbOk =>
              /\ ~last.threw
              /\ \E row \in RowsOf(last.pk) :
                    /\ row.ai_summary = FallbackSummary
                    /\ row.ai_insight = FallbackInsight

C9_Witness ==
    /\ last.op = "processRecord"
    /\ \E i \in Positions("sqs.send") : trace[i].res = "error"
    /\ last.outcome = "put"
    /\ \E row \in RowsOf(last.pk) : row.ai_summary = FallbackSummary

----------------------------------------------------------------------------
\* Claims about the redrive handler (checked under Spec)

MessageProcessed == last.op = "processMessage" /\ last.kind = "message"

\* the messages the last step added to the queue
NewMessages == {m \in queue : m.mid \notin last.before}

\* C4: a dead-letter message whose retry count is at least 3 is abandoned:
\* the redrive handler deletes it and counts it as failed, and neither invokes
\* the backend for it, nor upserts its record, nor publishes a message
C4_ExhaustedMessageAbandoned ==
    (MessageProcessed /\ last.rc >= 3) =>
        /\ Times("invoke") = 0
        /\ Times("put") = 0
        /\ Times("sendToQueue") = 0
        /\ Times("sqs.send") = 0
        /\ NewMessages = {}
        /\ Times("sqs.delete") = 1
        /\ \A i \in Positions("sqs.delete") : trace[i].n = last.mid
        /\ last.counted.failed >= 1
        /\ last.counted.succeeded = 0
        /\ last.counted.requeued = 0
        /\ ~last.threw =>
              /\ last.outcome = "abandoned"
              /\ last.mid \notin QueueIds
              /\ last.counted.failed = 1

C4_Witness ==
    /\ MessageProcessed
    /\ last.rc = 3
    /\ last.outcome = "abandoned"
    /\ last.mid \notin QueueIds

\* C5: when the redrive handler processes a message of retry count k < 3 and
\* the re-enrichment fails, with every publish and the delete succeeding, the
\* original message is gone from the queue, exactly one new message is in it,
\* that message carries the record with retry count k + 1, and the message is
\* counted as requeued
C5_ExactlyOneRequeuedMessage ==
    (/\ MessageProcessed
     /\ last.rc < 3
     /\ last.outcome = "requeued"
     /\ \A i \in Positions("sqs.send") : trace[i].res = "ok") =>
        /\ \A i \in Positions("sqs.delete") : trace[i].n = last.mid
        /\ Times("sqs.delete") = 1
        /\ last.counted = [succeeded |-> 0, failed |-> 0, requeued |-> 1]
        /\ Cardinality(NewMessages) = 1
        /\ \A m \in NewMessages : ~m.malformed /\ m.retryCount = last.rc + 1
                                               /\ m.record.PK = last.pk

EnrichmentSucceeded == \E i \in Positions("invoke") : trace[i].res = "ok"

\* C7: when the re-enrichment of a message succeeds, the redrive handler
\* upserts the record and only then deletes the message: no delete is sent
\* before a successful upsert, and when the upsert throws the message is not
\* deleted and stays in the queue
C7_UpsertBeforeDelete ==
    (MessageProcessed /\ EnrichmentSucceeded) =>
        /\ Times("put") = 1
        /\ \A d \in Positions("sqs.delete") :
              \E u \in Positions("put") : u < d /\ trace[u].res = "ok"
        /\ last.dbOk =>
              /\ Times("sqs.delete") = 1
              /\ \A d \in Positions("sqs.delete") : trace[d].n = last.mid
              /\ last.counted.succeeded = 1
              /\ \E row \in RowsOf(last.pk) : Truthy(row.ai_summary) /\ Truthy(row.ai_insight)
        /\ ~last.dbOk =>
              /\ Times("sqs.delete") = 0
              /\ last.mid \in QueueIds
              /\ last.threw
              /\ last.counted = [succeeded |-> 0, failed |-> 1, requeued |-> 0]

C7_Witness ==
    /\ MessageProcessed
    /\ EnrichmentSucceeded
    /\ last.outcome = "succeeded"
    /\ last.mid \notin QueueIds
    /\ RowsOf(last.pk) # {}

\* C8: an exception raised while the redrive handler processes one message
\* does not escape the handler: the message is counted as failed, it is not
\* deleted by this pass and stays in the queue, and the handler goes on with
\* the remaining messages of the batch or returns its counts
C8_FailureStaysWithItsMessage ==
    (last.op = "processMessage" /\ last.threw) =>
        /\ last.handler \in {"running", "resolved"}
        /\ last.counted.failed >= 1
        /\ \A i \in Positions("sqs.delete") : trace[i].res = "error"
        /\ last.mid \in QueueIds
        /\ last.handler = "running" =>
              \E r \in RedriveIds : /\ rd[r].status = "running"
                                    /\ rd[r].pending # {}
                                    /\ rd[r].result.failed >= 1
        /\ last.handler = "resolved" =>
              /\ \A r \in RedriveIds : rd[r].status = "idle"
              /\ last.result.failed >= 1

C8_Witness ==
    /\ last.op = "processMessage"
    /\ last.threw
    /\ last.kind = "malformed"
    /\ last.handler = "running"
    /\ last.mid \in QueueIds
    /\ \E r \in RedriveIds : rd[r].pending # {}

----------------------------------------------------------------------------
\* The dead-letter loop for one record whose enrichment always fails: the
\* backend fails every invocation, every publish, put and delete succeeds.
\* Each message carries the number of unsuccessful redrive attempts its
\* record went through before the message was published.

MaxLineage == 4
MaxLoopQueue == 5

LoopEvent == StreamRecord("INSERT", TRUE, KeysOf(notesTransformer, Item(notesTransformer)),
                          TRUE, Item(notesTransformer), FALSE, NoImage)

AllPublished == Dlq(TRUE, <<TRUE, TRUE>>)

NextRedriveLoop ==
    \/ /\ store = {}
       /\ NoRedriveRunning
       /\ StreamStart(notesTransformer, 1)
    \/ StreamStep(LoopEvent, AllFail, AllPublished, TRUE) /\ QueueWithin(MaxLoopQueue)
    \/ \E r \in RedriveIds : \E batch \in SUBSET Visible :
            inv.status = "idle" /\ RedriveStart(r, TRUE, batch)
    \/ \E r \in RedriveIds : \E m \in rd[r].pending :
            /\ m.lineage < MaxLineage
            /\ RedriveStep(r, m, AllFail, AllPublished.pubs, TRUE, TRUE, m.lineage + 1)
            /\ QueueWithin(MaxLoopQueue)

SpecRedriveLoop == Init /\ [][NextRedriveLoop]_vars

\* C6: for a record whose enrichment always fails, the redrive handler makes
\* at most 3 unsuccessful redrive attempts: a message it re-enriches belongs
\* to a record with fewer than 3 such attempts behind it
C6_AtMostThreeRedriveAttempts ==
    (MessageProcessed /\ Times("invoke") > 0) => last.lineage < 3

----------------------------------------------------------------------------
\* The same INSERT event built and upserted twice, the second time at the
\* same or a later time: the processor of one source, one source item

InitUpsertTwice ==
    /\ store = {}
    /\ queue = {}
    /\ now = 0
    /\ inv = Idle("notes")
    /\ rd = [r \in RedriveIds |-> NotStarted]
    /\ trace = <<>>
    /\ last \in UNION {{[NoStep EXCEPT !.op = "call", !.who = t.name, !.kind = "INSERT",
                                        !.arg = StreamRecord("INSERT", TRUE, KeysOf(t, img),
                                                             TRUE, img, FALSE, NoImage)]
                            : img \in Images(t)} : t \in Sources}

\* processRecord has run on the event with result r; ret keeps the rows of the
\* first upsert and its time
Upserted(stage, r) ==
    /\ store' = r.w.store
    /\ queue' = r.w.queue
    /\ trace' = r.w.trace
    /\ last' = [last EXCEPT !.op = stage, !.pk = r.pk, !.outcome = r.outcome,
                            !.threw = r.threw,
                            !.ret = IF stage = "first"
                                    THEN <<RowsAt(r.w.store, Key(r.pk, SK_RECORD)), now>>
                                    ELSE @]

Upsert(stage, outs, dlq) ==
    /\ Upserted(stage, processRecord(getTransformer(last.who), World,
                                     Env(now, outs, dlq, TRUE, TRUE, 0), last.arg))
    /\ UNCHANGED <<now, inv, rd>>

FirstUpsert(outs, dlq) == last.op = "call" /\ Upsert("first", outs, dlq)

SecondUpsert(outs, dlq) == last.op = "first" /\ Upsert("second", outs, dlq)

TimePasses ==
    /\ last.op \in {"call", "first"}
    /\ now < MaxTime
    /\ now' = now + 1
    /\ UNCHANGED <<store, queue, inv, rd, trace, last>>

NextUpsertTwice ==
    \/ \E x \in StreamInputs(getTransformer(last.who), last.arg, StreamOutSeqs) :
            FirstUpsert(x[1], x[2])
    \/ \E x \in StreamInputs(getTransformer(last.who), last.arg, StreamOutSeqs) :
            SecondUpsert(x[1], x[2])
    \/ TimePasses

SpecUpsertTwice == InitUpsertTwice /\ [][NextUpsertTwice]_vars

\* C10: building and upserting the same INSERT event twice, at two different
\* times, leaves exactly one row for the record, and the row's created_at is
\* the one the first upsert stored
C10_CreatedAtUnchanged ==
    (last.op = "second" /\ now # last.ret[2]) =>
        /\ Cardinality({row \in store : row.PK = last.pk}) = 1
        /\ \A row \in RowsOf(last.pk) : \A first \in last.ret[1] :
              row.created_at = first.created_at

----------------------------------------------------------------------------
\* An INSERT event followed by a MODIFY event of the same source item, the
\* MODIFY at the same or a later time

\* the MODIFY event of the item an INSERT event created: same keys, the item
\* as new and as old image
ModifyOf(record) ==
    [record EXCEPT !.eventName = "MODIFY",
                   !.hasOldImage = TRUE,
                   !.OldImage = record.NewImage]

ModifyAfterInsert(outs, dlq) ==
    /\ last.op = "first"
    /\ Upserted("modified", processRecord(getTransformer(last.who), World,
                                          Env(now, outs, dlq, TRUE, TRUE, 0),
                                          ModifyOf(last.arg)))
    /\ UNCHANGED <<now, inv, rd>>

NextInsertThenModify ==
    \/ \E x \in StreamInputs(getTransformer(last.who), last.arg, StreamOutSeqs) :
            FirstUpsert(x[1], x[2])
    \/ \E x \in StreamInputs(getTransformer(last.who), ModifyOf(last.arg), StreamOutSeqs) :
            ModifyAfterInsert(x[1], x[2])
    \/ TimePasses

SpecInsertThenModify == InitUpsertTwice /\ [][NextInsertThenModify]_vars

\* C11: after an INSERT and then a MODIFY of the same source identity have
\* been processed in that order, the stored row's created_at equals the
\* created_at resolved when the INSERT was processed
C11_CreatedAtSurvivesModify ==
    (last.op = "modified" /\ ~last.threw) =>
        \A row \in RowsOf(last.pk) : \A first \in last.ret[1] :
            row.created_at = first.created_at

----------------------------------------------------------------------------
\* The soliloquies handler that catches per event (unnamed/part_006): the
\* record is built and put without enrichment, a REMOVE takes the identity
\* from the pre-change image, and whatever an event throws is logged and the
\* loop goes on

SOURCE_TABLE_NAME == <<"nexusnote-soliloquies-production">>

\* catch (error): the store call r ended the try block
Swallowed(r, success, pk) ==
    Outcome(r.w, FALSE, IF r.threw THEN "caught" ELSE success, pk)

\* oldImage ? soliloquiesTransformer.extractId(oldImage) : null
oldImageId(record) ==
    IF record.hasOldImage THEN extractId(soliloquiesTransformer, record.OldImage)
                          ELSE Returned(<<>>)

\* the INSERT/MODIFY branch once the record has been built as b
putBuilt(w, env, b) ==
    IF ~b.ok
    THEN Outcome(w, FALSE, "caught", <<>>)
    ELSE Swallowed(putUnifiedRecord(w, env, b.rec), "put", b.rec.PK)

\* the REMOVE branch once the identity x has been read from the old image
deleteById(w, env, x) ==
    IF ~x.ok
    THEN Outcome(w, FALSE, "caught", <<>>)
    ELSE IF Falsy(x.id)
    THEN Outcome(w, FALSE, "unresolved", <<>>)
    ELSE Swallowed(hardDeleteUnifiedRecord(w, env, SOURCE_TABLE_NAME, x.id),
                   "deleted", SOURCE_TABLE_NAME)

\* one iteration of the for loop of the handler
handlerIteration(w, env, record) ==
    IF record.eventName = "REMOVE"
    THEN IF ~record.hasKeys
         THEN Outcome(w, FALSE, "skipped", <<>>)
         ELSE deleteById(w, env, oldImageId(record))
    ELSE IF ~record.hasNewImage
         THEN Outcome(w, FALSE, "skipped", <<>>)
         ELSE putBuilt(w, env, buildUnifiedRecord(soliloquiesTransformer, record.NewImage,
                                                  record.eventName, env.now))

----------------------------------------------------------------------------
\* An INSERT event followed by the REMOVE event of the same source item, per
\* source and per handler

\* the handlers an event of source t can be delivered to
Handlers(t) ==
    IF t.name = "soliloquies" THEN {"processRecord", "handler"} ELSE {"processRecord"}

Process(h, t, w, env, record) ==
    IF h = "handler" THEN handlerIteration(w, env, record)
                     ELSE processRecord(t, w, env, record)

\* key attributes of a source table keyed by owner and sort key
OwnerKeys(img) == [userId |-> GetId(img, "userId"), sortKey |-> <<"k1">>]

\* the REMOVE event of the item an INSERT event created
RemoveOf(record, keys, hasOld) ==
    StreamRecord("REMOVE", TRUE, keys, FALSE, NoImage,
                 hasOld, IF hasOld THEN record.NewImage ELSE NoImage)

RemoveEventsOf(t, record) ==
    {RemoveOf(record, keys, hasOld) :
        keys \in {KeysOf(t, record.NewImage), OwnerKeys(record.NewImage)},
        hasOld \in BOOLEAN}

InitInsertThenRemove ==
    /\ store = {}
    /\ queue = {}
    /\ now = 0
    /\ inv = Idle("notes")
    /\ rd = [r \in RedriveIds |-> NotStarted]
    /\ trace = <<>>
    /\ last \in UNION {UNION {{[NoStep EXCEPT !.op = "call", !.who = t.name,
                                              !.kind = "INSERT", !.handler = h,
                                              !.arg = StreamRecord("INSERT", TRUE,
                                                                   KeysOf(t, img), TRUE, img,
                                                                   FALSE, NoImage)]
                                  : img \in Images(t)} : h \in Handlers(t)} : t \in Sources}

InsertProcessed(outs, dlq) ==
    /\ last.op = "call"
    /\ Upserted("first", Process(last.handler, getTransformer(last.who), World,
                                 Env(now, outs, dlq, TRUE, TRUE, 0), last.arg))
    /\ UNCHANGED <<now, inv, rd>>

\* the handler has run on the REMOVE event with result r; pk stays the
\* partition key of the INSERT
Removed(record, r) ==
    /\ store' = r.w.store
    /\ queue' = r.w.queue
    /\ trace' = r.w.trace
    /\ last' = [last EXCEPT !.op = "removed", !.kind = "REMOVE", !.arg = record,
                            !.outcome = r.outcome, !.threw = r.threw]

RemoveProcessed(record, dbOk) ==
    /\ last.op = "first"
    /\ last.outcome = "put"
    /\ Removed(record, Process(last.handler, getTransformer(last.who), World,
                               Env(now, AllFail, DlqUnset, dbOk, TRUE, 0), record))
    /\ UNCHANGED <<now, inv, rd>>

NextInsertThenRemove ==
    \/ \E x \in StreamInputs(getTransformer(last.who), last.arg, StreamOutSeqs) :
            InsertProcessed(x[1], x[2])
    \/ \E record \in RemoveEventsOf(getTransformer(last.who), last.arg) :
         \E dbOk \in BOOLEAN : RemoveProcessed(record, dbOk)
    \/ TimePasses

SpecInsertThenRemove == InitInsertThenRemove /\ [][NextInsertThenRemove]_vars

\* the delete commands the last step sent to the store
Deletes == {i \in DOMAIN trace : trace[i].op = "delete"}

\* C12: for every source and entity, the key the stream processor deletes on
\* a REMOVE event is the key under which the entity's INSERT was upserted:
\* the delete is addressed to the INSERT's partition key, and once it has
\* succeeded no row is left under the INSERT's key
C12_RemoveDeletesInsertedKey ==
    (last.op = "removed" /\ Deletes # {}) =>
        /\ \A i \in Deletes : trace[i].pk = last.pk
        /\ last.outcome = "deleted" => RowsOf(last.pk) = {}

----------------------------------------------------------------------------
\* extractIdForDelete as a function: the transformer, the key attributes and
\* the pre-change image of a REMOVE event are drawn at the start and the
\* function is applied once

\* the attributes an identity extractor reads, each with the value it has in
\* the source item
KeyFields ==
    [userId |-> <<"u1">>, noteId |-> <<"n1">>, thoughtId |-> <<"t1">>,
     soliloquyId |-> <<"s1">>, PK |-> <<"x">>, id |-> <<"y">>]

\* every choice of key attributes
KeySets == {[f \in F |-> KeyFields[f]] : F \in SUBSET DOMAIN KeyFields}

OldImages(t) == Images(t) \cup BadImages(t)

InitDelete ==
    /\ store = {}
    /\ queue = {}
    /\ now = 0
    /\ inv = Idle("notes")
    /\ rd = [r \in RedriveIds |-> NotStarted]
    /\ trace = <<>>
    /\ last \in UNION {{[NoStep EXCEPT !.op = "call", !.who = t.name, !.kind = "REMOVE",
                                        !.arg = StreamRecord("REMOVE", TRUE, keys,
                                                             FALSE, NoImage, FALSE, NoImage)]
                            : keys \in KeySets}
                       \cup
                       {[NoStep EXCEPT !.op = "call", !.who = t.name, !.kind = "REMOVE",
                                        !.arg = StreamRecord("REMOVE", TRUE, keys,
                                                             FALSE, NoImage, TRUE, old)]
                            : keys \in KeySets, old \in OldImages(t)}
                       : t \in Sources}

ExtractCall ==
    /\ last.op = "call"
    /\ last' = [last EXCEPT !.op = "extractIdForDelete",
                            !.ret = extractIdForDelete(getTransformer(last.who), last.arg.Keys,
                                                       last.arg.hasOldImage, last.arg.OldImage)]
    /\ UNCHANGED <<store, queue, now, inv, rd, trace>>

NextDelete == ExtractCall

SpecDelete == InitDelete /\ [][NextDelete]_vars

\* extractIdForDelete has returned or thrown for the drawn REMOVE event
ExtractReturned == last.op = "extractIdForDelete"

\* the general extractor fails on the key attributes and succeeds on the
\* pre-change image
KeysLackIdentity ==
    /\ ~extractId(getTransformer(last.who), last.arg.Keys).ok
    /\ last.arg.hasOldImage
    /\ extractId(getTransformer(last.who), last.arg.OldImage).ok

\* the dedicated key extractor, where the transformer has one, fails on the
\* key attributes as well
KeyExtractorFails ==
    getTransformer(last.who).hasExtractIdFromKeys =>
        ~extractIdFromKeys(getTransformer(last.who), last.arg.Keys).ok

\* C13 as stated: for a REMOVE event whose key attributes lack the fields the
\* identity extractor needs and whose pre-change image has them,
\* extractIdForDelete returns the identity extractId yields on the image
C13_OldImageIdentity_asStated ==
    (ExtractReturned /\ KeysLackIdentity) =>
        last.ret = extractId(getTransformer(last.who), last.arg.OldImage)

\* C13: for a REMOVE event on whose key attributes both the dedicated key
\* extractor and the general extractor fail and whose pre-change image has
\* the identity fields, extractIdForDelete returns the identity extractId
\* yields on the pre-change image
C13_OldImageIdentity ==
    (ExtractReturned /\ KeysLackIdentity /\ KeyExtractorFails) =>
        last.ret = extractId(getTransformer(last.who), last.arg.OldImage)

C13_Witness ==
    /\ ExtractReturned
    /\ KeysLackIdentity
    /\ KeyExtractorFails
    /\ last.who = "soliloquies"
    /\ last.arg.Keys # <<>>
    /\ last.ret.ok

----------------------------------------------------------------------------
\* Invocations of the soliloquies handler that catches per event
\* (unnamed/part_006) on batches of events

InitCatching ==
    /\ store = {}
    /\ queue = {}
    /\ now = 0
    /\ inv = Idle("soliloquies")
    /\ rd = [r \in RedriveIds |-> NotStarted]
    /\ trace = <<>>
    /\ last = NoStep

\* one iteration of the for loop: the try block on the next event; the catch
\* block logs what it threw and the loop goes on
CatchingStep(record, dbOk) ==
    /\ inv.status = "running"
    /\ StreamStepped(soliloquiesTransformer, record, dbOk,
                     handlerIteration(World, Env(now, AllFail, DlqUnset, dbOk, TRUE, 0),
                                      record))
    /\ UNCHANGED <<now, rd>>

NextCatching ==
    \/ \E n \in 1..MaxBatch : StreamStart(soliloquiesTransformer, n)
    \/ \E record \in Events(soliloquiesTransformer) : \E dbOk \in BOOLEAN :
            CatchingStep(record, dbOk)
    \/ Tick

SpecCatching == InitCatching /\ [][NextCatching]_vars

\* the processing of the last event raised an error
RaisedError == last.op = "processRecord" /\ (last.threw \/ last.outcome = "caught")

\* C14: when processing an event of the batch raises an unexpected error, the
\* invocation fails with that error and no later event of the batch is
\* processed: the handler is rejected and its loop has ended
C14_ErrorEndsInvocation ==
    RaisedError => (last.handler = "rejected" /\ inv.status = "idle")

\* a store put or delete of the last step failed
StoreWriteFailed ==
    \E i \in DOMAIN trace : trace[i].op \in {"put", "delete"} /\ trace[i].res = "error"

\* C15: if the store put or delete issued for an event fails, the invocation
\* fails with that error: the handler never resolves, and does not go on to
\* the next event, after a failed store write
C15_FailedWriteFailsInvocation ==
    (last.op = "processRecord" /\ StoreWriteFailed) => last.handler = "rejected"

----------------------------------------------------------------------------
\* LLM-council stream processor (unnamed/part_004): the record is put without
\* enrichment, and an identity extraction that throws the skip marker ends
\* the event without an error

\* the catch blocks never recognise the skip marker
SkipMarker_never(err) == FALSE

\* (err as Error).message.includes('SKIPPING_RECORD')
SkipMarker(err) == err = SKIPPING_RECORD

\* the catch block around the identity extraction that threw err
councilCaught(w, err) ==
    IF SkipMarker(err) THEN Outcome(w, FALSE, "internal", <<>>)
                       ELSE Outcome(w, TRUE, "identity", <<>>)

\* the REMOVE branch once the identity x has been extracted from the keys
councilRemove(w, env, x) ==
    IF ~x.ok
    THEN councilCaught(w, x.err)
    ELSE Ended(hardDeleteUnifiedRecord(w, env,
                                       Join(llmCouncilTransformer.sourceTableName, x.id),
                                       SK_RECORD),
               "store", "deleted", Join(llmCouncilTransformer.sourceTableName, x.id))

\* the upsert branch once the record has been built as b
councilUpsert(w, env, b) ==
    IF ~b.ok
    THEN councilCaught(w, b.err)
    ELSE Ended(putUnifiedRecord(w, env, b.rec), "store", "put", b.rec.PK)

llmCouncilProcessRecord(w, env, record) ==
    IF record.eventName = "REMOVE"
    THEN IF ~record.hasKeys
         THEN Outcome(w, FALSE, "skipped", <<>>)
         ELSE councilRemove(w, env, extractId(llmCouncilTransformer, record.Keys))
    ELSE IF ~record.hasNewImage
         THEN Outcome(w, FALSE, "skipped", <<>>)
         ELSE councilUpsert(w, env, buildUnifiedRecord(llmCouncilTransformer, record.NewImage,
                                                       record.eventName, env.now))

\* conversation ids: two conversations, one holding the prefix in the middle,
\* and an internal row
CouncilIds == {<<"c1">>, <<"x_", "user_council">>, <<"user_council", "_u1">>}

Conversation(id) ==
    [id |-> id, title |-> "Talk", user_id |-> <<"u1">>,
     messages |-> <<[content |-> "Question"], [response |-> "Answer"]>>]

CouncilImages == {Conversation(id) : id \in CouncilIds} \cup {[title |-> "Talk"]}

CouncilEvents ==
    {StreamRecord(n, TRUE, [id |-> GetId(img, "id")], TRUE, img, FALSE, NoImage)
        : n \in {"INSERT", "MODIFY"}, img \in CouncilImages}
    \cup
    {StreamRecord(n, TRUE, [id |-> <<"c1">>], FALSE, NoImage, FALSE, NoImage)
        : n \in {"INSERT", "MODIFY"}}
    \cup
    {StreamRecord("REMOVE", TRUE, [id |-> id], FALSE, NoImage, FALSE, NoImage)
        : id \in CouncilIds}
    \cup
    {StreamRecord("REMOVE", TRUE, [other |-> <<"x">>], FALSE, NoImage, FALSE, NoImage),
     StreamRecord("REMOVE", FALSE, NoImage, FALSE, NoImage, FALSE, NoImage)}

InitCouncil ==
    /\ store = {}
    /\ queue = {}
    /\ now = 0
    /\ inv = Idle("llm-council")
    /\ rd = [r \in RedriveIds |-> NotStarted]
    /\ trace = <<>>
    /\ last = NoStep

\* the handler's loop has run processRecord on the event with result r
CouncilStepped(record, dbOk, r) ==
    /\ store' = r.w.store
    /\ queue' = r.w.queue
    /\ trace' = r.w.trace
    /\ inv' = IF r.threw \/ inv.left = 1 THEN Idle(inv.src)
              ELSE [inv EXCEPT !.left = @ - 1]
    /\ last' = [NoStep EXCEPT !.op = "processRecord", !.who = "llm-council",
                              !.kind = record.eventName, !.arg = record,
                              !.dbOk = dbOk, !.pk = r.pk,
                              !.outcome = r.outcome, !.threw = r.threw,
                              !.before = store,
                              !.handler = IF r.threw THEN "rejected"
                                          ELSE IF inv.left = 1 THEN "resolved"
                                          ELSE "running"]

CouncilStep(record, dbOk) ==
    /\ inv.status = "running"
    /\ CouncilStepped(record, dbOk,
                      llmCouncilProcessRecord(World, Env(now, AllFail, DlqUnset, dbOk, TRUE, 0),
                                              record))
    /\ UNCHANGED <<now, rd>>

NextCouncil ==
    \/ \E n \in 1..MaxBatch : StreamStart(llmCouncilTransformer, n)
    \/ \E record \in CouncilEvents : \E dbOk \in BOOLEAN : CouncilStep(record, dbOk)
    \/ Tick

SpecCouncil == InitCouncil /\ [][NextCouncil]_vars

\* the identity the branch of the event reads: the key attributes of a
\* REMOVE, the new image of an INSERT or MODIFY
EventId(record) ==
    IF record.eventName = "REMOVE"
    THEN IF record.hasKeys THEN GetId(record.Keys, "id") ELSE <<>>
    ELSE IF record.hasNewImage THEN GetId(record.NewImage, "id") ELSE <<>>

\* the last step processed an LLM-council event of an internal row
InternalEventProcessed ==
    /\ last.op = "processRecord"
    /\ last.who = "llm-council"
    /\ StartsWith(EventId(last.arg), "user_council")

\* C16: an LLM-council INSERT, MODIFY or REMOVE event whose id starts with
\* 'user_council' causes no store put or delete and no error: the store is as
\* before, the invocation is not rejected and goes on with the next event of
\* the batch
C16_InternalRowSkipped ==
    InternalEventProcessed =>
        /\ ~last.threw
        /\ \A i \in DOMAIN trace : trace[i].op \notin {"put", "delete"}
        /\ store = last.before
        /\ last.handler # "rejected"
        /\ last.handler = "running" => inv.status = "running"

C16_Witness ==
    /\ InternalEventProcessed
    /\ last.kind = "MODIFY"
    /\ ~last.dbOk
    /\ last.handler = "running"
    /\ store # {}

----------------------------------------------------------------------------
\* softDeleteUnifiedRecord as an operation on the store: the rows of the
\* store and the key are drawn at the start and the function is applied once

\* a stored row of the item of source t, archived or not, enriched or not
StoredRows(t) ==
    {[buildUnifiedRecord(t, Item(t), e, 0).rec
        EXCEPT !.is_archived = a, !.ai_summary = x, !.ai_insight = x]
        : e \in {"INSERT", "MODIFY"}, a \in BOOLEAN, x \in {Undefined, "Summary"}}

\* stores that hold at most one row of the note and at most one of the thought
Stores ==
    {n \cup th : n \in {{}} \cup {{r} : r \in StoredRows(notesTransformer)},
                 th \in {{}} \cup {{r} : r \in StoredRows(thoughtsTransformer)}}

SoftDeleteKeys ==
    {Key(buildUnifiedRecord(t, Item(t), "INSERT", 0).rec.PK, SK_RECORD)
        : t \in {notesTransformer, thoughtsTransformer}}

InitSoftDelete ==
    /\ store \in Stores
    /\ queue = {}
    /\ now = 0
    /\ inv = Idle("notes")
    /\ rd = [r \in RedriveIds |-> NotStarted]
    /\ trace = <<>>
    /\ last \in {[NoStep EXCEPT !.op = "call", !.arg = k] : k \in SoftDeleteKeys}

\* softDeleteUnifiedRecord has ended as r
SoftDeleteEnded(getOk, dbOk, r) ==
    /\ store' = r.w.store
    /\ trace' = r.w.trace
    /\ last' = [last EXCEPT !.op = "softDelete", !.accepted = getOk, !.dbOk = dbOk,
                            !.threw = r.threw, !.before = store]

SoftDeleteCall(getOk, dbOk) ==
    /\ last.op = "call"
    /\ SoftDeleteEnded(getOk, dbOk,
                       softDeleteUnifiedRecord(World,
                                               [Env(now, AllFail, DlqUnset, dbOk, TRUE, 0)
                                                   EXCEPT !.getOk = getOk],
                                               last.arg.PK, last.arg.SK))
    /\ UNCHANGED <<queue, now, inv, rd>>

NextSoftDelete ==
    \/ \E getOk, dbOk \in BOOLEAN : SoftDeleteCall(getOk, dbOk)
    \/ TimePasses

SpecSoftDelete == InitSoftDelete /\ [][NextSoftDelete]_vars

\* softDeleteUnifiedRecord has returned, having read the rows under its key
SoftDeleteReturned == last.op = "softDelete" /\ ~last.threw

\* the rows the store held under the key before the call
RowsBefore == RowsAt(last.before, last.arg)

\* C17: softDeleteUnifiedRecord on an existing row writes back a row with
\* is_deleted true, event_type REMOVE and updated_at the time of the call,
\* every other attribute as it was, and leaves the other rows alone
C17_SoftDeleteKeepsOtherAttributes ==
    (SoftDeleteReturned /\ RowsBefore # {}) =>
        \A r \in RowsBefore :
            store = (last.before \ {r})
                        \cup {[r EXCEPT !.is_deleted = TRUE, !.event_type = "REMOVE",
                                        !.updated_at = now]}

C17_Witness ==
    /\ SoftDeleteReturned
    /\ now = 1
    /\ \E r \in RowsBefore : r.is_archived /\ r.ai_summary = "Summary" /\ r.updated_at = 0
    /\ \E r \in store : RowKey(r) = last.arg /\ r.is_deleted /\ r.is_archived
                        /\ r.updated_at = 1
    /\ \E r \in store : RowKey(r) # last.arg

\* C18: softDeleteUnifiedRecord for a key under which the store holds no row
\* performs no write, creates no row and returns without an error
C18_SoftDeleteOfMissingRow ==
    (last.op = "softDelete" /\ last.accepted /\ RowsBefore = {}) =>
        /\ ~last.threw
        /\ \A i \in DOMAIN trace : trace[i].op # "put"
        /\ store = last.before

C18_Witness ==
    /\ last.op = "softDelete"
    /\ last.accepted
    /\ ~last.dbOk
    /\ RowsBefore = {}
    /\ store # {}
    /\ ~last.threw

----------------------------------------------------------------------------
\* The archive handler of the read API (unnamed/part_005) and a source item
\* that is inserted, archived through the API and then modified

\* UpdateCommand 'set is_archived = :archived': the attribute is set on the
\* item under the key, and an item that does not exist is created
UpdateItem(st, k, archived) ==
    IF RowsAt(st, k) = {}
    THEN st \cup {[PK |-> k.PK, SK |-> k.SK, is_archived |-> archived]}
    ELSE (st \ RowsAt(st, k)) \cup {[r EXCEPT !.is_archived = archived] : r \in RowsAt(st, k)}

\* the handler: 400 without an id, 200 after the update, 500 when it fails
archiveHandler(w, env, id, archived) ==
    IF Falsy(id)
    THEN [w |-> w, statusCode |-> 400]
    ELSE IF env.dbOk
    THEN [w |-> [Log(w, "update", id, 1, "ok")
                    EXCEPT !.store = UpdateItem(@, Key(id, SK_RECORD), archived)],
          statusCode |-> 200]
    ELSE [w |-> Log(w, "update", id, 0, "error"), statusCode |-> 500]

\* the archive handler has answered as r
Archived(id, archived, r) ==
    /\ store' = r.w.store
    /\ trace' = r.w.trace
    /\ last' = [last EXCEPT !.op = "archived", !.rc = r.statusCode,
                            !.accepted = (id = last.pk /\ archived /\ r.statusCode = 200)]

\* a request of the read API after the INSERT has been processed
Archive(id, archived, dbOk) ==
    /\ last.op = "first"
    /\ Archived(id, archived,
                archiveHandler(World, Env(now, AllFail, DlqUnset, dbOk, TRUE, 0), id, archived))
    /\ UNCHANGED <<queue, now, inv, rd>>

ModifyAfterArchive(outs, dlq) ==
    /\ last.op = "archived"
    /\ Upserted("modified", processRecord(getTransformer(last.who), World,
                                          Env(now, outs, dlq, TRUE, TRUE, 0),
                                          ModifyOf(last.arg)))
    /\ UNCHANGED <<now, inv, rd>>

\* the ids a request can carry: the partition key of the record, the key of
\* no record, none
ArchiveIds == {last.pk, <<"unknown">>, <<>>}

NextArchive ==
    \/ \E x \in StreamInputs(getTransformer(last.who), last.arg, StreamOutSeqs) :
            FirstUpsert(x[1], x[2])
    \/ \E id \in ArchiveIds : \E archived, dbOk \in BOOLEAN : Archive(id, archived, dbOk)
    \/ \E x \in StreamInputs(getTransformer(last.who), ModifyOf(last.arg), StreamOutSeqs) :
            ModifyAfterArchive(x[1], x[2])
    \/ TimePasses

SpecArchive == InitUpsertTwice /\ [][NextArchive]_vars

\* C19: a row archived through the read API is still archived after the
\* stream processor has upserted a later MODIFY of its source entity
C19_ArchivedSurvivesModify ==
    (last.op = "modified" /\ last.accepted) =>
        \A row \in RowsOf(last.pk) : row.is_archived

----------------------------------------------------------------------------
\* buildUnifiedRecord as a function: the transformer, the source record and
\* the event type are drawn at the start and the function is applied once

\* the attributes a note may or may not carry
NoteOptional ==
    [title |-> "Hi", content |-> "Hello", aiTags |-> "tags", createdAt |-> 0, updatedAt |-> 0]

\* notes with every choice of the optional attributes
NoteImages ==
    {[userId |-> <<"u1">>, noteId |-> <<"n1">>] @@ [f \in F |-> NoteOptional[f]]
        : F \in SUBSET DOMAIN NoteOptional}

SourceRecords(t) ==
    IF t.name = "notes" THEN NoteImages \cup BadImages(t)
                        ELSE Images(t) \cup BadImages(t)

InitBuild ==
    /\ store = {}
    /\ queue = {}
    /\ now = 0
    /\ inv = Idle("notes")
    /\ rd = [r \in RedriveIds |-> NotStarted]
    /\ trace = <<>>
    /\ last \in UNION {{[NoStep EXCEPT !.op = "call", !.who = t.name, !.kind = e, !.arg = img]
                            : e \in {"INSERT", "MODIFY"}, img \in SourceRecords(t)}
                       : t \in Sources}

BuildCall ==
    /\ last.op = "call"
    /\ last' = [last EXCEPT !.op = "buildUnifiedRecord",
                            !.ret = buildUnifiedRecord(getTransformer(last.who), last.arg,
                                                       last.kind, now)]
    /\ UNCHANGED <<store, queue, now, inv, rd, trace>>

NextBuild == BuildCall \/ TimePasses

SpecBuild == InitBuild /\ [][NextBuild]_vars

\* C20: for the notes source, an INSERT of {userId: "u1", noteId: "n1",
\* title: "Hi", content: "Hello"} builds a record with partition key
\* "nexusnote-notes-production#u1#n1", record type "NOTE" and content exactly
\* {title: "Hi", content: "Hello"}
C20_NotesInsertRecord ==
    (/\ last.op = "buildUnifiedRecord"
     /\ last.who = "notes"
     /\ last.kind = "INSERT"
     /\ last.arg = Item(notesTransformer)) =>
        /\ last.ret.ok
        /\ last.ret.rec.PK = <<"nexusnote-notes-production", "#", "u1", "#", "n1">>
        /\ last.ret.rec.record_type = "NOTE"
        /\ last.ret.rec.content = [title |-> "Hi", content |-> "Hello"]

----------------------------------------------------------------------------
\* AiService.generateEnrichment applied once to one record, for every
\* sequence of three backend outcomes and every dead-letter configuration

FencedAnswer == Response(<<FenceJson, Newline, Obj("S", "I"), Newline, Fence>>)

BackendOutcomes ==
    {BackendError, Unparsable, Answer, FencedAnswer,
     Response(<<Obj("", "I")>>), Response(<<Obj("S", Undefined)>>)}

GenerateOutSeqs == [1..maxRetries -> BackendOutcomes]

GenerateRecords ==
    {buildUnifiedRecord(t, Item(t), e, 0).rec
       : t \in {notesTransformer, thoughtsTransformer}, e \in {"INSERT", "MODIFY"}}

InitGenerate ==
    /\ store = {}
    /\ queue = {}
    /\ now = 0
    /\ inv = Idle("thoughts")
    /\ rd = [r \in RedriveIds |-> NotStarted]
    /\ trace = <<>>
    /\ last \in {[NoStep EXCEPT !.op = "call", !.arg = record,
                                !.env = Env(0, outs, dlq, TRUE, TRUE, 0)]
                   : record \in GenerateRecords, outs \in GenerateOutSeqs,
                     dlq \in StreamDlq}

\* the call has returned g
GenerateReturned(g) ==
    /\ store' = g.w.store
    /\ queue' = g.w.queue
    /\ trace' = g.w.trace
    /\ last' = [last EXCEPT !.op = "generateEnrichment", !.pk = last.arg.PK,
                            !.threw = g.threw,
                            !.ret = [summary |-> g.summary, insight |-> g.insight]]

GenerateCall ==
    /\ last.op = "call"
    /\ GenerateReturned(generateEnrichment(World, last.env, last.arg))
    /\ UNCHANGED <<now, inv, rd>>

NextGenerate == GenerateCall

SpecGenerate == InitGenerate /\ [][NextGenerate]_vars

Generated == last.op = "generateEnrichment"

\* C21: when the backend returns the two-field JSON object wrapped in a json
\* fence, generateEnrichment strips the fence and parses the object at the
\* first attempt: exactly one backend invocation, no dead-letter publish, and
\* the summary and the insight of the object are returned
C21_FencedAnswerParsedAtOnce ==
    (Generated /\ last.env.outs[1] = FencedAnswer) =>
        /\ ~last.threw
        /\ Times("invoke") = 1
        /\ \A i \in Positions("invoke") : trace[i].n = 1 /\ trace[i].res = "ok"
        /\ Times("delay") = 0
        /\ Times("sendToQueue") = 0
        /\ Times("sqs.send") = 0
        /\ queue = {}
        /\ last.ret = [summary |-> "S", insight |-> "I"]

C21_Witness ==
    /\ Generated
    /\ last.env.outs = <<FencedAnswer, BackendError, Unparsable>>
    /\ last.env.urlSet
    /\ Times("invoke") = 1
    /\ last.ret = [summary |-> "S", insight |-> "I"]

\* the same call under the scheduling of the runtime: a call that has been
\* made runs until it returns
SpecGenerateLive == SpecGenerate /\ WF_vars(GenerateCall)

\* the attempts of the last call are numbered 1, 2, ... in the order made
AttemptsInOrder ==
    \A k \in 1..Times("invoke") :
        \E i \in Positions("invoke") :
            /\ trace[i].n = k
            /\ Cardinality({j \in Positions("invoke") : j < i}) = k - 1

\* C22: for every sequence of backend outcomes (invocation failures, malformed
\* responses and answers in any mix) a call of generateEnrichment returns, and
\* it has then invoked the backend at most 3 times in all: the invocation
\* failures and the parse failures draw on one budget of attempts
C22_ReturnsWithinThreeInvocations ==
    (last.op = "call") ~>
        (/\ Generated
         /\ Times("invoke") \in 1..maxRetries
         /\ AttemptsInOrder
         /\ \A i \in Positions("invoke") :
               trace[i].n < Times("invoke") => trace[i].res # "ok")

C22_Witness ==
    /\ Generated
    /\ last.env.outs = <<BackendError, Unparsable, BackendError>>
    /\ Times("invoke") = 3
    /\ \E i \in Positions("delay") : trace[i].res = "api" /\ trace[i].n = 1000
    /\ \E i \in Positions("delay") : trace[i].res = "parse" /\ trace[i].n = 1000

\* every attempt of the last call failed, at the invocation or at the parse
AttemptsExhausted ==
    \A k \in 1..maxRetries : InvokeResult(last.env.outs[k]) # "ok"

\* the error type that goes with the way the final attempt failed
FinalErrorType ==
    IF last.env.outs[maxRetries].err THEN "BEDROCK_API_ERROR" ELSE "INVALID_JSON_RESPONSE"

\* C23: a call of generateEnrichment that uses up its attempts calls the
\* dead-letter publish exactly once, after the last invocation, for its record,
\* with the error type BEDROCK_API_ERROR when the final attempt failed at the
\* invocation and INVALID_JSON_RESPONSE when it failed at the parse; a call in
\* which an attempt is parsed never calls it; and every message published
\* carries the record, that error type and retry count 0
C23_OnePublishOnExhaustion ==
    Generated =>
        /\ AttemptsExhausted =>
              /\ Times("invoke") = maxRetries
              /\ Times("sendToQueue") = 1
              /\ \A j \in Positions("sendToQueue") :
                    /\ trace[j].pk = last.arg.PK
                    /\ trace[j].res = FinalErrorType
                    /\ trace[j].n = 0
                    /\ \A i \in Positions("invoke") : i < j
              /\ Times("sqs.send") = IF last.env.urlSet THEN 1 ELSE 0
        /\ ~AttemptsExhausted =>
              /\ Times("sendToQueue") = 0
              /\ Times("sqs.send") = 0
              /\ queue = {}
        /\ \A m \in queue :
              /\ m.record = last.arg
              /\ m.errorType = FinalErrorType
              /\ m.retryCount = 0

C23_Witness ==
    /\ Generated
    /\ last.env.outs = <<BackendError, BackendError, Unparsable>>
    /\ Times("sendToQueue") = 1
    /\ \E m \in queue : /\ m.errorType = "INVALID_JSON_RESPONSE"
                        /\ m.retryCount = 0
                        /\ m.record = last.arg

\* the last call returned the fallback text in the summary or in the insight
ReturnedFallback ==
    /\ Generated
    /\ \/ last.ret.summary = FallbackSummary
       \/ last.ret.insight = FallbackInsight

\* C25: whenever generateEnrichment returns the fallback text in the summary
\* or in the insight, it has called the dead-letter publish for that record
\* before returning
C25_FallbackImpliesPublishAttempt ==
    ReturnedFallback =>
        \E j \in Positions("sendToQueue") : trace[j].pk = last.arg.PK

----------------------------------------------------------------------------
\* The loop body of the redrive handler applied once to one received
\* dead-letter message, for every retry count the queue can hold, every
\* backend behaviour (answers that lack a field included) and every outcome
\* of the publishes, the put and the delete

PartialAnswers == {Once(Response(<<Obj("", "I")>>)), Once(Response(<<Obj("S", Undefined)>>))}

MessageOutSeqs == OutSeqs \cup PartialAnswers \cup {Once(FencedAnswer)}

\* a message as sendToQueue builds it, received by invocation 1
DeadLetter(record, retryCount) ==
    [mid |-> 1, malformed |-> FALSE, record |-> record,
     errorType |-> IF retryCount = 0 THEN "BEDROCK_API_ERROR" ELSE "ENRICHMENT_FAILED",
     errorMessage |-> IF retryCount = 0 THEN "Failed after 3 attempts"
                                        ELSE "Redrive enrichment failed",
     timestamp |-> 0, retryCount |-> retryCount, holder |-> 1, lineage |-> 0]

DeadLetters ==
    {DeadLetter(buildUnifiedRecord(notesTransformer, Item(notesTransformer), e, 0).rec, k)
       : e \in {"INSERT", "MODIFY"}, k \in 0..MAX_RETRY_COUNT}

InitMessage ==
    /\ store = {}
    /\ now = 0
    /\ inv = Idle("notes")
    /\ trace = <<>>
    /\ \E m \in DeadLetters :
          /\ queue = {m}
          /\ rd = [r \in RedriveIds |->
                     [status |-> "running", pending |-> {m}, result |-> NoResult]]
          /\ last \in {[NoStep EXCEPT !.op = "received", !.arg = m,
                                      !.env = Env(0, outs, Dlq(TRUE, pubs), dbOk, delOk, 0)]
                         : outs \in MessageOutSeqs, pubs \in PubSeqs,
                           dbOk \in BOOLEAN, delOk \in BOOLEAN}

\* the loop body has run on m and ended as p; the handler returns
MessageReturned(m, p) ==
    /\ store' = p.w.store
    /\ queue' = p.w.queue
    /\ trace' = p.w.trace
    /\ rd' = [r \in RedriveIds |-> NotStarted]
    /\ last' = [last EXCEPT !.op = "processMessage", !.kind = "message",
                            !.dbOk = last.env.dbOk, !.pk = m.record.PK,
                            !.outcome = p.outcome, !.threw = p.threw,
                            !.mid = m.mid, !.rc = m.retryCount,
                            !.before = QueueIds, !.counted = p.counted,
                            !.handler = "resolved",
                            !.result = Sum(NoResult, p.counted)]

MessageCall ==
    /\ last.op = "received"
    /\ MessageReturned(last.arg, processMessage(World, last.env, last.arg))
    /\ UNCHANGED <<now, inv>>

NextMessage == MessageCall

SpecMessage == InitMessage /\ [][NextMessage]_vars

\* what the re-enrichment of the message of the last step returned
Reenriched ==
    enrichUnifiedRecord([store |-> {}, queue |-> {last.arg}, reserved |-> {last.arg.mid},
                         nsend |-> 0, trace |-> <<>>],
                        last.env, cleanRecord(last.arg)).rec

HasFallback(record) ==
    record.ai_summary = FallbackSummary \/ record.ai_insight = FallbackInsight

\* C24: the redrive handler never upserts a record whose summary or insight
\* is the fallback text: when the re-enrichment of a message returns the
\* fallback text in either field, the handler makes no put, counts nothing as
\* succeeded, and calls the dead-letter publish with the retry count plus one
\* and counts the message as requeued
C24_FallbackNeverUpserted ==
    (MessageProcessed /\ last.rc < MAX_RETRY_COUNT) =>
        /\ \A row \in store : ~HasFallback(row)
        /\ HasFallback(Reenriched) =>
              /\ Times("put") = 0
              /\ store = {}
              /\ last.counted.succeeded = 0
              /\ last.counted.requeued = 1
              /\ last.outcome \in {"requeued", "error"}
              /\ \E j \in Positions("sendToQueue") :
                    /\ trace[j].res = "ENRICHMENT_FAILED"
                    /\ trace[j].n = last.rc + 1
        /\ ~HasFallback(Reenriched) =>
              /\ Times("put") = 1
              /\ last.dbOk => store = {Reenriched}

C24_Witness ==
    /\ MessageProcessed
    /\ last.env.outs = Once(Response(<<Obj("S", Undefined)>>))
    /\ Reenriched.ai_summary = "S"
    /\ Reenriched.ai_insight = FallbackInsight
    /\ last.outcome = "requeued"
    /\ store = {}
    /\ \E m \in queue : m.retryCount = last.rc + 1

\* the store holds the record of the last step with a real enrichment
UpsertedEnriched ==
    \E row \in RowsOf(last.pk) :
        Truthy(row.ai_summary) /\ Truthy(row.ai_insight) /\ ~HasFallback(row)

\* C26: when the message of a record has left the queue after the loop body
\* ran on it, either the record was upserted with a real enrichment, or the
\* message had reached the retry ceiling, or the queue holds another
\* dead-letter message for the record: below the ceiling a failed redrive
\* attempt does not lose the record, whatever the outcome of the re-publish
C26_RecordNotLostBelowCeiling ==
    (MessageProcessed /\ last.mid \notin QueueIds) =>
        \/ UpsertedEnriched
        \/ last.rc >= MAX_RETRY_COUNT
        \/ \E m \in queue : ~m.malformed /\ m.record.PK = last.pk

----------------------------------------------------------------------------
\* An entity is inserted while the backend is down and then removed, both
\* events in one batch of the notes processor; afterwards only the redrive
\* handler runs: no INSERT or MODIFY event follows the REMOVE

InsertEvent == StreamRecord("INSERT", TRUE, KeysOf(notesTransformer, Item(notesTransformer)),
                            TRUE, Item(notesTransformer), FALSE, NoImage)

RemoveEvent == StreamRecord("REMOVE", TRUE, KeysOf(notesTransformer, Item(notesTransformer)),
                            FALSE, NoImage, FALSE, NoImage)

EntityKey == buildUnifiedRecord(notesTransformer, Item(notesTransformer), "INSERT", 0).rec.PK

NextRemoveThenRedrive ==
    \/ last.op = "none" /\ StreamStart(notesTransformer, 2)
    \/ \E outs \in {AllFail, Once(Unparsable)} :
          inv.left = 2 /\ StreamStep(InsertEvent, outs, AllPublished, TRUE)
    \/ inv.left = 1 /\ StreamStep(RemoveEvent, AllFail, DlqUnset, TRUE)
    \/ \E r \in RedriveIds : \E batch \in SUBSET Visible :
          /\ inv.status = "idle"
          /\ last.op # "none"
          /\ batch # {}
          /\ RedriveStart(r, TRUE, batch)
    \/ \E r \in RedriveIds : \E m \in rd[r].pending :
         \E x \in RedriveInputs(m, PipelineOutSeqs) : \E delOk \in BOOLEAN :
            RedriveStep(r, m, x[1], x[2], x[3], delOk, 0) /\ QueueWithin(MaxQueue)
    \/ \E m \in queue : inv.status = "idle" /\ VisibilityTimeout(m)

SpecRemoveThenRedrive == Init /\ [][NextRemoveThenRedrive]_vars

\* the batch with the INSERT and the REMOVE of the entity has been processed
RemoveWasProcessed == last.op # "none" /\ inv.status = "idle"

\* C27: once the REMOVE event of an entity has been processed and no INSERT
\* or MODIFY event for it follows, no redrive pass makes the store hold a
\* row for the entity that is not marked deleted
C27_RemovedEntityStaysRemoved ==
    RemoveWasProcessed =>
        \A row \in RowsOf(EntityKey) : row.is_deleted

----------------------------------------------------------------------------
\* Further claims about the redrive handler in the whole pipeline (checked
\* under Spec)

DeadLetterMessages == {m \in queue : ~m.malformed}

\* C28: every dead-letter message in the queue carries a retry count between
\* 0 and MAX_RETRY_COUNT: the stream processors publish with retry count 0,
\* and the redrive handler publishes with the retry count of a message below
\* the ceiling plus one, never with more than MAX_RETRY_COUNT
C28_RetryCountWithinCeiling ==
    /\ \A m \in DeadLetterMessages : m.retryCount \in 0..MAX_RETRY_COUNT
    /\ \A j \in Positions("sendToQueue") : trace[j].n \in 0..MAX_RETRY_COUNT
    /\ MessageProcessed =>
          \A j \in Positions("sendToQueue") : trace[j].n \in {0, last.rc + 1}

C28_Witness ==
    /\ MessageProcessed
    /\ last.rc = MAX_RETRY_COUNT - 1
    /\ last.outcome = "requeued"
    /\ \E m \in NewMessages : m.retryCount = MAX_RETRY_COUNT

\* the last step ended a redrive invocation, which returned last.result
RedriveReturned == last.op = "processMessage" /\ last.handler = "resolved"

\* C29: the counts a redrive invocation returns add up: processed =
\* succeeded + failed + requeued, whatever the outcomes of the enrichment,
\* the put and the delete of each message
C29_CountsAddUp ==
    RedriveReturned =>
        last.result.processed =
            last.result.succeeded + last.result.failed + last.result.requeued

----------------------------------------------------------------------------
\* Two redrive invocations that may overlap on the one queue.  Neither the
\* receive nor the queue sets a visibility timeout the handler controls: a
\* received message becomes visible again when the timeout of the queue
\* expires, whether or not the invocation that received it has ended.
\* One record is dead-lettered; every put and every delete succeeds.

RedrivePair == {1, 2}

InitOverlap ==
    /\ store = {}
    /\ queue = {}
    /\ now = 0
    /\ inv = Idle("notes")
    /\ rd = [r \in RedrivePair |-> NotStarted]
    /\ trace = <<>>
    /\ last = NoStep

\* the backend either answers at once or fails every attempt
OverlapOutSeqs == {Once(Answer), AllFail}

\* of the two publishes of a failed redrive step, the one made inside
\* generateEnrichment fails and the re-publish of the handler succeeds
RequeueOnly == <<FALSE, TRUE>>

NextOverlap ==
    \/ last.op = "none" /\ StreamStart(notesTransformer, 1)
    \/ StreamStep(InsertEvent, AllFail, AllPublished, TRUE) /\ QueueWithin(MaxQueue)
    \/ \E r \in RedrivePair : \E batch \in SUBSET Visible :
          /\ inv.status = "idle"
          /\ batch # {}
          /\ RedriveStart(r, TRUE, batch)
    \/ \E r \in RedrivePair : \E m \in rd[r].pending :
         \E outs \in OverlapOutSeqs :
            RedriveStep(r, m, outs, RequeueOnly, TRUE, TRUE, 0) /\ QueueWithin(MaxQueue)
    \/ \E m \in queue : VisibilityTimeout(m)

SpecOverlap == InitOverlap /\ [][NextOverlap]_vars

\* the last step ran the loop body on a message to the end of a branch:
\* upserted and deleted, requeued and deleted, or abandoned
HandledToTheEnd ==
    /\ MessageProcessed
    /\ last.outcome \in {"succeeded", "requeued", "abandoned"}

\* C30: with two redrive invocations overlapping on the queue, a message is
\* handled by at most one of them: a message that an invocation upserts,
\* requeues or abandons is still in the queue when that invocation takes it
\* up, that is, no invocation has handled and deleted it before
C30_HandledByAtMostOne ==
    HandledToTheEnd => last.mid \in last.before

----------------------------------------------------------------------------
\* One putUnifiedRecord and one softDeleteUnifiedRecord on the same key,
\* running concurrently: the soft delete is two store requests (GetCommand,
\* then PutCommand) with an await between them, so the put of the upsert
\* may take place before, between or after them.  last.kind is the position
\* of the soft delete, last.ret the rows its GetCommand returned, and
\* last.accepted tells whether the upsert has completed.

EditedNotes == {[Item(notesTransformer) EXCEPT !.title = "Edited"],
                [Item(notesTransformer) EXCEPT !.content = "Rewritten"]}

RaceUpserts ==
    {buildUnifiedRecord(notesTransformer, img, e, 1).rec
       : img \in EditedNotes, e \in {"INSERT", "MODIFY"}}

InitRace ==
    /\ store \in {{}} \cup {{r} : r \in StoredRows(notesTransformer)}
    /\ queue = {}
    /\ now = 1
    /\ inv = Idle("notes")
    /\ rd = [r \in RedriveIds |-> NotStarted]
    /\ trace = <<>>
    /\ last \in {[NoStep EXCEPT !.op = "race", !.arg = record, !.pk = record.PK,
                                !.kind = "start", !.ret = {}, !.accepted = FALSE]
                   : record \in RaceUpserts}

RaceEnv == Env(now, AllFail, DlqUnset, TRUE, TRUE, 0)

\* a step of one of the two calls has ended with the world w
RaceStepped(w) ==
    /\ store' = w.store
    /\ trace' = trace \o w.trace
    /\ UNCHANGED <<queue, now, inv, rd>>

\* the upsert: one PutCommand
RaceUpsert ==
    /\ ~last.accepted
    /\ RaceStepped(putUnifiedRecord(World, RaceEnv, last.arg).w)
    /\ last' = [last EXCEPT !.accepted = TRUE]

\* the GetCommand of the soft delete
RaceGet ==
    /\ last.kind = "start"
    /\ RaceStepped(Log(World, "get", last.pk, 1, "ok"))
    /\ last' = [last EXCEPT !.kind = "read", !.ret = RowsAt(store, Key(last.pk, SK_RECORD))]

\* the rest of the soft delete: return when nothing was found, else write back
RaceWriteBack ==
    /\ last.kind = "read"
    /\ RaceStepped(softDeleteFound(World, RaceEnv, last.pk, SK_RECORD, last.ret).w)
    /\ last' = [last EXCEPT !.kind = "done"]

NextRace == RaceUpsert \/ RaceGet \/ RaceWriteBack

SpecRace == InitRace /\ [][NextRace]_vars

BothCompleted == last.op = "race" /\ last.accepted /\ last.kind = "done"

\* C31: for every interleaving of one upsert and one soft delete on the same
\* key, once both have completed the row stored under the key carries the
\* content that the upsert wrote
C31_UpsertContentSurvives ==
    BothCompleted =>
        \E row \in RowsOf(last.pk) : row.content = last.arg.content

----------------------------------------------------------------------------
\* A batch of events of one source partition is processed by the notes
\* processor and, delivered again, processed a second time in the same
\* order; time may pass at any point.  last.arg is the batch, last.mid the
\* index of the next event, last.ret the view of the store after the first
\* pass.

MaxBatchLen == 2

NoteEvents ==
    {StreamRecord(e, TRUE, KeysOf(notesTransformer, img), TRUE, img, FALSE, NoImage)
       : e \in {"INSERT", "MODIFY"}, img \in Images(notesTransformer)}
    \cup {RemoveEvent}

Batches == UNION {[1..n -> NoteEvents] : n \in 1..MaxBatchLen}

\* what the comparison looks at: the keys and, of each row, the content,
\* created_at, event_type and is_deleted
StoreView(st) ==
    {[PK |-> row.PK, SK |-> row.SK, content |-> row.content,
      created_at |-> row.created_at, event_type |-> row.event_type,
      is_deleted |-> row.is_deleted] : row \in st}

InitRedeliver ==
    /\ store = {}
    /\ queue = {}
    /\ now = 0
    /\ inv = Idle("notes")
    /\ rd = [r \in RedriveIds |-> NotStarted]
    /\ trace = <<>>
    /\ last \in {[NoStep EXCEPT !.op = "pass1", !.who = "notes", !.arg = batch,
                                !.mid = 1, !.ret = {}]
                   : batch \in Batches}

\* processRecord has run on event last.mid of the batch with result r
BatchStepped(r) ==
    /\ ~r.threw
    /\ store' = r.w.store
    /\ queue' = r.w.queue
    /\ trace' = r.w.trace
    /\ last' = IF last.mid < Len(last.arg)
               THEN [last EXCEPT !.mid = @ + 1]
               ELSE IF last.op = "pass1"
               THEN [last EXCEPT !.op = "pass2", !.mid = 1, !.ret = StoreView(r.w.store)]
               ELSE [last EXCEPT !.op = "done"]

BatchStep(outs) ==
    /\ last.op \in {"pass1", "pass2"}
    /\ BatchStepped(processRecord(notesTransformer, World,
                                  Env(now, outs, DlqUnset, TRUE, TRUE, 0),
                                  last.arg[last.mid]))
    /\ UNCHANGED <<now, inv, rd>>

BatchTimePasses ==
    /\ last.op \in {"pass1", "pass2"}
    /\ now < MaxTime
    /\ now' = now + 1
    /\ UNCHANGED <<store, queue, inv, rd, trace, last>>

NextRedeliver ==
    \/ \E outs \in {Once(Answer), AllFail} : BatchStep(outs)
    \/ BatchTimePasses

SpecRedeliver == InitRedeliver /\ [][NextRedeliver]_vars

\* C32: processing a batch a second time in the same order leaves the store
\* as the first processing left it, as far as the keys and each row's
\* content, created_at, event_type and is_deleted go
C32_RedeliveryChangesNothing ==
    last.op = "done" => StoreView(store) = last.ret

----------------------------------------------------------------------------
\* processRecord of a processor that uses extractIdForDelete, applied once to
\* a REMOVE event: the source, the key attributes and the pre-change image
\* are drawn at the start, the store holds the row of the source item or not

DeleteSources == {t \in Sources : UsesExtractIdForDelete(t)}

InitRemove ==
    /\ queue = {}
    /\ now = 0
    /\ inv = Idle("notes")
    /\ rd = [r \in RedriveIds |-> NotStarted]
    /\ trace = <<>>
    /\ \E t \in DeleteSources :
          /\ store \in {{}, {buildUnifiedRecord(t, Item(t), "INSERT", 0).rec}}
          /\ last \in {[NoStep EXCEPT !.op = "call", !.who = t.name, !.kind = "REMOVE",
                                      !.arg = StreamRecord("REMOVE", TRUE, keys,
                                                           FALSE, NoImage, FALSE, NoImage)]
                          : keys \in KeySets}
                      \cup
                      {[NoStep EXCEPT !.op = "call", !.who = t.name, !.kind = "REMOVE",
                                      !.arg = StreamRecord("REMOVE", TRUE, keys,
                                                           FALSE, NoImage, TRUE, old)]
                          : keys \in KeySets, old \in OldImages(t)}

\* processRecord has ended as r
RemoveEnded(dbOk, r) ==
    /\ store' = r.w.store
    /\ queue' = r.w.queue
    /\ trace' = r.w.trace
    /\ last' = [last EXCEPT !.op = "processRecord", !.dbOk = dbOk, !.pk = r.pk,
                            !.outcome = r.outcome, !.threw = r.threw,
                            !.before = store]

RemoveCall(dbOk) ==
    /\ last.op = "call"
    /\ RemoveEnded(dbOk, processRecord(getTransformer(last.who), World,
                                       Env(now, AllFail, DlqUnset, dbOk, TRUE, 0),
                                       last.arg))
    /\ UNCHANGED <<now, inv, rd>>

NextRemove == \E dbOk \in BOOLEAN : RemoveCall(dbOk)

SpecRemove == InitRemove /\ [][NextRemove]_vars

\* the three tiers on the REMOVE event of the last step: the dedicated key
\* extractor on the key attributes (where the transformer has one), the
\* general extractor on the key attributes, the general extractor on the
\* pre-change image (where the event carries one)
Tiers ==
    LET t == getTransformer(last.who)
    IN << IF t.hasExtractIdFromKeys THEN extractIdFromKeys(t, last.arg.Keys)
                                    ELSE Thrown("not implemented"),
          extractId(t, last.arg.Keys),
          IF last.arg.hasOldImage THEN extractId(t, last.arg.OldImage)
                                  ELSE Thrown("no oldImage") >>

SucceedingTiers == {i \in 1..3 : Tiers[i].ok}

RemoveEventProcessed == last.op = "processRecord" /\ last.kind = "REMOVE"

\* C33: for a REMOVE event the identity is the result of the first tier that
\* succeeds, in the order key extractor on the keys, general extractor on the
\* keys, general extractor on the pre-change image, and the processor sends
\* one delete for the key of that identity; when no tier succeeds the
\* processing of the event fails with an error and no delete is sent
C33_FirstSucceedingTier ==
    RemoveEventProcessed =>
        /\ SucceedingTiers # {} =>
              \E i \in SucceedingTiers :
                 /\ \A j \in SucceedingTiers : i <= j
                 /\ last.pk = Join(getTransformer(last.who).sourceTableName, Tiers[i].id)
                 /\ Times("delete") = 1
                 /\ \A d \in Positions("delete") : trace[d].pk = last.pk
                 /\ last.threw = ~last.dbOk
                 /\ last.dbOk => store = last.before \ RowsAt(last.before, Key(last.pk, SK_RECORD))
        /\ SucceedingTiers = {} =>
              /\ last.threw
              /\ last.outcome = "identity"
              /\ Times("delete") = 0
              /\ store = last.before

\* the key extractor answers from the PK attribute although the pre-change
\* image carries the soliloquyId
C33_Witness ==
    /\ RemoveEventProcessed
    /\ last.who = "soliloquies"
    /\ SucceedingTiers = {1, 3}
    /\ Tiers[1].id # Tiers[3].id
    /\ last.outcome = "deleted"

----------------------------------------------------------------------------
\* The handler of a stream processor run on a batch of two events drawn at
\* the start: the for loop awaits processRecord on each event in turn, an
\* exception ends the invocation.  last.arg is the batch, last.mid the index
\* of the event the last step processed (0 before the first), last.ret that
\* event, last.before the store before the step.

LoopBatches(t) == [1..MaxBatch -> Events(t)]

InitLoop ==
    /\ store = {}
    /\ queue = {}
    /\ now = 0
    /\ inv = Idle("notes")
    /\ rd = [r \in RedriveIds |-> NotStarted]
    /\ trace = <<>>
    /\ last \in UNION {{[NoStep EXCEPT !.op = "handler", !.who = t.name, !.arg = batch,
                                        !.mid = 0, !.handler = "running"]
                           : batch \in LoopBatches(t)} : t \in Sources}

\* processRecord has run on event i of the batch and ended as r
LoopStepped(i, dbOk, r) ==
    /\ store' = r.w.store
    /\ queue' = r.w.queue
    /\ trace' = r.w.trace
    /\ last' = [last EXCEPT !.op = "processRecord", !.mid = i, !.ret = last.arg[i],
                            !.kind = last.arg[i].eventName,
                            !.dbOk = dbOk, !.pk = r.pk,
                            !.outcome = r.outcome, !.threw = r.threw,
                            !.before = store,
                            !.handler = IF r.threw THEN "rejected"
                                        ELSE IF i = Len(last.arg) THEN "resolved"
                                        ELSE "running"]

LoopStep(outs, dlq, dbOk) ==
    /\ last.handler = "running"
    /\ LoopStepped(last.mid + 1, dbOk,
                   processRecord(getTransformer(last.who), World,
                                 Env(now, outs, dlq, dbOk, TRUE, 0),
                                 last.arg[last.mid + 1]))
    /\ UNCHANGED <<now, inv, rd>>

NextLoop ==
    \E outs \in {Once(Answer), AllFail} : \E dlq \in {DlqUnset, AllPublished} :
       \E dbOk \in BOOLEAN : LoopStep(outs, dlq, dbOk)

SpecLoop == InitLoop /\ [][NextLoop]_vars

EventProcessed == last.op = "processRecord" /\ last.mid > 0

\* the event of the last step cannot be acted on: an INSERT or MODIFY without
\* a new image, or a REMOVE without key attributes
Unusable(e) ==
    IF e.eventName = "REMOVE" THEN ~e.hasKeys ELSE ~e.hasNewImage

\* C34: an INSERT or MODIFY event without a new image, and a REMOVE event
\* without key attributes, is skipped: the step makes no store request, no
\* backend invocation and no publish, leaves the store as it was and raises
\* no error, and the handler goes on to the next event of the batch
\* (or returns normally after the last one)
C34_UnusableEventSkipped ==
    (EventProcessed /\ Unusable(last.ret)) =>
        /\ last.outcome = "skipped"
        /\ ~last.threw
        /\ trace = <<>>
        /\ store = last.before
        /\ last.handler = IF last.mid < Len(last.arg) THEN "running" ELSE "resolved"

\* an event that follows a skipped one has been processed and stored
C34_Witness ==
    /\ EventProcessed
    /\ last.mid = 2
    /\ Unusable(last.arg[1])
    /\ last.arg[1].eventName = "MODIFY"
    /\ last.outcome = "put"
    /\ RowsOf(last.pk) # {}

\* the event is an INSERT or MODIFY whose new image lacks identity fields
LacksIdentity(e) ==
    /\ e.eventName \in {"INSERT", "MODIFY"}
    /\ e.hasNewImage
    /\ ~extractId(getTransformer(last.who), e.NewImage).ok

\* C35: for an INSERT or MODIFY event whose new image lacks the identity
\* fields, processRecord fails with the identity-extraction error before any
\* backend invocation, dead-letter publish or store request is made for the
\* event, and the error ends the invocation
C35_MissingIdentityFailsFirst ==
    (EventProcessed /\ LacksIdentity(last.ret)) =>
        /\ last.threw
        /\ last.outcome = "identity"
        /\ trace = <<>>
        /\ store = last.before
        /\ last.handler = "rejected"

C35_Witness ==
    /\ EventProcessed
    /\ LacksIdentity(last.ret)
    /\ last.who = "notes"
    /\ last.mid = 2
    /\ last.before # {}
    /\ last.threw

----------------------------------------------------------------------------
\* Deletions and the enrichment: either processRecord is applied to a REMOVE
\* event, or enrichUnifiedRecord is applied to a record of a deletion (its
\* event_type is REMOVE or its is_deleted is set)

DeletionRecords == {r \in EnrichRecords : r.event_type = "REMOVE" \/ r.is_deleted}

InitDeletion ==
    /\ queue = {}
    /\ now = 0
    /\ inv = Idle("notes")
    /\ rd = [r \in RedriveIds |-> NotStarted]
    /\ trace = <<>>
    /\ \/ \E t \in Sources :
             /\ store \in {{}, {buildUnifiedRecord(t, Item(t), "INSERT", 0).rec}}
             /\ last \in {[NoStep EXCEPT !.op = "call", !.who = t.name, !.kind = "REMOVE",
                                         !.arg = e] : e \in RemoveEvents(t)}
       \/ /\ store = {}
          /\ last \in {[NoStep EXCEPT !.op = "call", !.kind = "record", !.arg = record,
                                      !.env = Env(0, outs, dlq, TRUE, TRUE, 0)]
                         : record \in DeletionRecords, outs \in {Once(Answer), AllFail},
                           dlq \in {DlqUnset, AllPublished}}

RemoveEventCall(dbOk) == last.kind = "REMOVE" /\ RemoveCall(dbOk)

EnrichDeletionCall == last.kind = "record" /\ EnrichCall

NextDeletion ==
    \/ \E dbOk \in BOOLEAN : RemoveEventCall(dbOk)
    \/ EnrichDeletionCall

SpecDeletion == InitDeletion /\ [][NextDeletion]_vars

\* C36: processing a REMOVE event never invokes the generation backend and
\* never publishes to the dead-letter queue; and enrichUnifiedRecord returns a
\* record whose event_type is REMOVE or whose is_deleted is set as it is,
\* without a backend invocation or a publish
C36_DeletionsAreNotEnriched ==
    /\ RemoveEventProcessed =>
          /\ Times("invoke") = 0
          /\ Times("sendToQueue") = 0
          /\ Times("sqs.send") = 0
          /\ queue = {}
    /\ (last.op = "enrichUnifiedRecord"
          /\ (last.arg.event_type = "REMOVE" \/ last.arg.is_deleted)) =>
          /\ last.ret = last.arg
          /\ ~last.threw
          /\ trace = <<>>
          /\ queue = {}

C36_Witness ==
    /\ last.op = "enrichUnifiedRecord"
    /\ last.arg.is_deleted
    /\ last.arg.event_type = "MODIFY"
    /\ last.arg.ai_summary = Undefined
    /\ last.env.outs = Once(Answer)
    /\ last.ret = last.arg

----------------------------------------------------------------------------
\* buildUnifiedRecord applied to two raw records of one source: the pair is
\* drawn at the start, the two records differ in any of the attributes, among
\* them attributes no transformer reads

PairSources == {notesTransformer, contactsTransformer}

\* the attributes every raw record of the source carries
RawBase(t) ==
    IF t.name = "notes"
    THEN [userId |-> <<"u1">>, content |-> "Hello"]
    ELSE [PK |-> <<"USER", "#", "u1">>, workingStyle |-> "async"]

\* the attributes a raw record may or may not carry; secret and draft are read
\* by no transformer
RawOptional(t) ==
    IF t.name = "notes"
    THEN [noteId |-> <<"n1">>, title |-> "Hi", aiTags |-> "tags", createdAt |-> 0,
          secret |-> "s3cr3t", draft |-> "d"]
    ELSE [SK |-> <<"CONTACT", "#", "c1">>, contactName |-> "Ann", role |-> "lead",
          createdAt |-> 0, secret |-> "s3cr3t", draft |-> "d"]

RawRecords(t) ==
    {RawBase(t) @@ [f \in F |-> RawOptional(t)[f]] : F \in SUBSET DOMAIN RawOptional(t)}

\* the attributes extractId, transformContent, getCreatedAt, getUpdatedAt and
\* extractUserId of the transformer read
ReadFields(t) ==
    IF t.name = "notes"
    THEN {"userId", "noteId", "title", "content", "aiTags", "createdAt", "updatedAt"}
    ELSE {"PK", "SK", "contactName", "role", "workingStyle", "nextInteraction",
          "createdAt", "updatedAt"}

AgreeOn(a, b, F) ==
    \A f \in F : /\ (f \in DOMAIN a) <=> (f \in DOMAIN b)
                 /\ (f \in DOMAIN a) => a[f] = b[f]

InitPair ==
    /\ store = {}
    /\ queue = {}
    /\ now = 0
    /\ inv = Idle("notes")
    /\ rd = [r \in RedriveIds |-> NotStarted]
    /\ trace = <<>>
    /\ last \in UNION {{[NoStep EXCEPT !.op = "call", !.who = t.name, !.kind = e,
                                       !.arg = <<a, b>>]
                            : e \in {"INSERT", "MODIFY"}, a \in RawRecords(t),
                              b \in RawRecords(t)}
                       : t \in PairSources}

PairCall ==
    /\ last.op = "call"
    /\ last' = [last EXCEPT !.op = "buildPair",
                            !.ret = <<buildUnifiedRecord(getTransformer(last.who), last.arg[1],
                                                         last.kind, now),
                                      buildUnifiedRecord(getTransformer(last.who), last.arg[2],
                                                         last.kind, now)>>]
    /\ UNCHANGED <<store, queue, now, inv, rd, trace>>

NextPair == PairCall

SpecPair == InitPair /\ [][NextPair]_vars

PairBuilt == last.op = "buildPair"

\* C37: two raw records of one source that agree on the identity, the mapped
\* content, the timestamp and the owner attributes are built into records with
\* the same content, whatever other attributes they carry (and either both are
\* built or neither is); any two records built for one source have the same
\* set of content keys
C37_ContentIgnoresOtherFields ==
    PairBuilt =>
        /\ (last.ret[1].ok /\ last.ret[2].ok) =>
              DOMAIN last.ret[1].rec.content = DOMAIN last.ret[2].rec.content
        /\ AgreeOn(last.arg[1], last.arg[2], ReadFields(getTransformer(last.who))) =>
              /\ last.ret[1].ok = last.ret[2].ok
              /\ last.ret[1].ok => last.ret[1].rec.content = last.ret[2].rec.content

C37_Witness ==
    /\ PairBuilt
    /\ last.who = "contacts"
    /\ AgreeOn(last.arg[1], last.arg[2], ReadFields(contactsTransformer))
    /\ "secret" \in DOMAIN last.arg[1]
    /\ DOMAIN last.arg[2] \cap {"secret", "draft"} = {}
    /\ last.ret[1].ok
    /\ last.ret[1].rec.content.contactName = "Ann"
    /\ last.ret[1].rec.content = last.ret[2].rec.content

----------------------------------------------------------------------------
\* Partition keys of two source entities: two entities, each a source and the
\* key attributes of an item of that source, are drawn at the start and
\* buildUnifiedRecord is applied to an item of each

KeySources == Sources \cup {contactsTransformer, llmCouncilTransformer}

\* key-attribute tuples of the source; the key attributes of a contact are
\* composite strings with '#' inside (PK is typically USER#<userId>)
KeyTuples(t) ==
    CASE t.name = "notes" ->
            [userId : {<<"u1">>, <<"u2">>}, noteId : {<<"n1">>, <<"n2">>}]
      [] t.name = "thoughts" ->
            [userId : {<<"u1">>}, thoughtId : {<<"t1">>, <<"n1">>}]
      [] t.name = "contacts" ->
            [PK : {<<"USER", "#", "u1">>, <<"USER", "#", "u2">>,
                   <<"USER", "#", "u1", "#", "CONTACT">>},
             SK : {<<"CONTACT", "#", "c1">>, <<"CONTACT", "#", "c2">>, <<"c1">>}]
      [] t.name = "soliloquies" ->
            [soliloquyId : {<<"s1">>, <<"u1", "#", "n1">>}]
      [] t.name = "llm-council" ->
            [id : {<<"c1">>, <<"s1">>}]

Entities == UNION {{[source |-> t.name, keys |-> k] : k \in KeyTuples(t)} : t \in KeySources}

InitKeys ==
    /\ store = {}
    /\ queue = {}
    /\ now = 0
    /\ inv = Idle("notes")
    /\ rd = [r \in RedriveIds |-> NotStarted]
    /\ trace = <<>>
    /\ last \in {[NoStep EXCEPT !.op = "call", !.kind = "INSERT", !.arg = <<a, b>>]
                    : a \in Entities, b \in Entities}

KeysCall ==
    /\ last.op = "call"
    /\ last' = [last EXCEPT !.op = "buildKeys",
                            !.ret = <<buildUnifiedRecord(getTransformer(last.arg[1].source),
                                                         last.arg[1].keys, last.kind, now),
                                      buildUnifiedRecord(getTransformer(last.arg[2].source),
                                                         last.arg[2].keys, last.kind, now)>>]
    /\ UNCHANGED <<store, queue, now, inv, rd, trace>>

NextKeys == KeysCall

SpecKeys == InitKeys /\ [][NextKeys]_vars

KeysBuilt == last.op = "buildKeys" /\ last.ret[1].ok /\ last.ret[2].ok

\* C38: distinct source entities never share a unified-store key: two
\* different key-attribute tuples of one source are built into records with
\* different partition keys, and so are entities of two different sources
C38_DistinctEntitiesDistinctKeys ==
    (KeysBuilt /\ last.arg[1] # last.arg[2]) =>
        last.ret[1].rec.PK # last.ret[2].rec.PK

\* entities of two different sources have different partition keys
C38_SourcesNeverShareKeys ==
    (KeysBuilt /\ last.arg[1].source # last.arg[2].source) =>
        last.ret[1].rec.PK # last.ret[2].rec.PK

----------------------------------------------------------------------------
\* The waits between the attempts of generateEnrichment

\* the number of the attempt that ended just before position i of the trace
AttemptBefore(i) == Cardinality({j \in Positions("invoke") : j < i})

====
